---- MODULE Spec2Model ----
(***************************************************************************)
(* Portfolio backtesting engine of stockelper-backtesting:                 *)
(* src/src/backtesting/portfolio_backtest.py.                              *)
(*                                                                         *)
(* The model follows one run of PortfolioStrategy under the day-stepped    *)
(* engine: for every bar the broker first works on the orders issued on    *)
(* earlier bars (BrokerNext), then the strategy's next() runs              *)
(* (StrategyNext = rebalance when due + manage_position per symbol).       *)
(*                                                                         *)
(* Units: prices, ATR and cash are integers in tenths of a currency unit   *)
(* (so the ATR floor 0.1 is 1); dates are calendar day numbers.            *)
(* Text (report_type, event names) is a sequence of word tokens; the       *)
(* Python substring test `a in b` is the contiguous-subsequence test.      *)
(***************************************************************************)
EXTENDS Integers, Sequences, FiniteSets, TLC

VARIABLES
    cfg,                \* the BacktestInput fields the strategy receives
    table,              \* symbol -> rows of score_table_dart_idc in the window
    series,             \* symbol -> id of its price series (daily_stock_price)
    calendar,           \* id of the trading calendar of the price data
    bar,                \* index of the current bar (0 before the first next())
    date,               \* calendar date of the current bar
    pc,                 \* "broker" | "strategy" | "done"
    rebalance_date,     \* PortfolioStrategy.rebalance_date (None at start)
    prev_rebalance,     \* rebalance_date as it was before the last next()
    portfolio_positions,\* PortfolioStrategy.portfolio_positions: symbol -> size
    trades_log,         \* PortfolioStrategy.trades_log
    orders,             \* broker.orders: every order ever issued, with status
    position,           \* broker position per symbol (signed share count)
    cash,               \* broker cash
    indicator_data,     \* run_backtest: indicator_data, symbol -> indicator rows
    input_params,       \* run_backtest: the screening fields of BacktestInput
    database,           \* the tables run_backtest reads while selecting symbols
    stage,              \* how far run_backtest has come before the simulation
    universe_symbols,   \* run_backtest: universe_symbols
    symbol_to_score,    \* run_backtest: symbol_to_score
    screened,           \* run_backtest: screened
    sorted_symbols,     \* run_backtest: selected_symbols after the sort (1847)
    cut_symbols,        \* run_backtest: selected_symbols after the cut (1931)
    valid_symbols,      \* run_backtest: valid_symbols, the symbols simulated
    output,             \* what run_backtest has returned (None while it runs)
    environ,            \* os.environ as the worker and process_job read it
    stock_db,           \* score_table_dart_idc and daily_stock_price, per code
    web_db,             \* the backtesting table: job_id -> status, input_json,
                        \* and the values the status has had, in order
    job,                \* the job dict in hand (None before a claim)
    jpc,                \* where worker.main / process_job stands
    backtest_params,    \* process_job: backtest_params
    retry_count,        \* process_job: retry_count
    output_dict,        \* the output of the last run_backtest (None before)
    calls,              \* the calls made to agents, tools and the database
    row_lock,           \* the row locks of the backtesting table: job_id -> holder
    conn,               \* each worker's claim_next_pending_job statement
    returned            \* the jobs claim_next_pending_job has returned, in order

screen_vars == <<input_params, database, stage, universe_symbols, symbol_to_score,
                 screened, sorted_symbols, cut_symbols, valid_symbols, output>>

backtest_vars == <<cfg, table, series, calendar, bar, date, pc, rebalance_date,
                   prev_rebalance, portfolio_positions, trades_log, orders, position,
                   cash, indicator_data>>

job_vars == <<environ, stock_db, web_db, job, jpc, backtest_params, retry_count,
              output_dict, calls>>

claim_vars == <<row_lock, conn, returned>>

vars == <<backtest_vars, screen_vars, job_vars, claim_vars>>

\* Python None / a value: an optional is a sequence of length 0 or 1
None == <<>>
Some(x) == <<x>>
Val(o) == o[1]

(***************************************************************************)
(* Bounds of the model                                                     *)
(***************************************************************************)
MaxBar == 4             \* number of simulated bars after the warm-up

(***************************************************************************)
(* Program constants                                                       *)
(***************************************************************************)
AtrFloor == 1           \* max(atr, 0.1), in tenths
StopMult == 2           \* stop_price = close - 2 * atr
TakeMult == 3           \* take_profit = close + 3 * atr
DefaultPeriod == 30     \* rebalancing_days.get(..., 30)
MinPeriod == 30         \* the longest indicator: SMA(data.close, period=30)

\* run_backtest: rebalancing_days
rebalancing_days(name) ==
    CASE name = "daily" -> 1
      [] name = "weekly" -> 7
      [] name = "monthly" -> 30
      [] name = "quarterly" -> 90
      [] OTHER -> DefaultPeriod

(***************************************************************************)
(* Text helpers                                                            *)
(***************************************************************************)
\* Python `sub in s` on strings
Contains(sub, s) ==
    \E i \in 0..(Len(s) - Len(sub)) : SubSeq(s, i + 1, i + Len(sub)) = sub

\* str.replace(tok, '') for a one-token pattern
RECURSIVE Remove(_, _)
Remove(s, tok) ==
    IF s = <<>> THEN <<>>
    ELSE IF Head(s) = tok THEN Remove(Tail(s), tok)
    ELSE <<Head(s)>> \o Remove(Tail(s), tok)

\* str.lower(), token by token
LowerTok(t) == IF t = "SPAC" THEN "spac" ELSE t
Lower(s) == [i \in 1..Len(s) |-> LowerTok(s[i])]

\* event_type = report_type.replace(' 결정', '').replace(' 발행결정', '').lower()
EventTypeOf(report_type) ==
    Lower(Remove(Remove(report_type, "decision"), "issuance_decision"))

\* map_report_type_to_disclosure_code: positive keywords are tried first
positive_keywords ==
    << <<"paidin_increase">>, <<"bonus_increase">>, <<"treasury", "acquisition">> >>
negative_keywords ==
    << <<"capital_reduction">>, <<"treasury", "disposal">> >>

map_report_type_to_disclosure_code(report_type) ==
    IF \E k \in 1..Len(positive_keywords) : Contains(positive_keywords[k], report_type)
    THEN 1
    ELSE IF \E k \in 1..Len(negative_keywords) : Contains(negative_keywords[k], report_type)
    THEN 2
    ELSE 3

(***************************************************************************)
(* DataLoader: the frames the strategy receives                            *)
(***************************************************************************)
RECURSIVE Distinct(_)
Distinct(s) ==
    IF s = <<>> THEN <<>>
    ELSE LET r == Distinct(SubSeq(s, 1, Len(s) - 1))
             x == s[Len(s)]
         IN  IF \E i \in 1..Len(r) : r[i] = x THEN r ELSE Append(r, x)

RECURSIVE Filter(_, _)
Filter(s, keep) ==
    IF s = <<>> THEN <<>>
    ELSE IF Head(s) \in keep THEN <<Head(s)>> \o Filter(Tail(s), keep)
    ELSE Filter(Tail(s), keep)

\* get_dart_disclosure_data: SELECT DISTINCT rcept_dt, report_type, category ...
\* ORDER BY rcept_dt, with event_type and disclosure derived per row
get_dart_disclosure_data(rows) ==
    Distinct([i \in 1..Len(rows) |->
        [date        |-> rows[i].date,
         report_type |-> rows[i].report_type,
         event_type  |-> EventTypeOf(rows[i].report_type),
         disclosure  |-> map_report_type_to_disclosure_code(rows[i].report_type),
         category    |-> rows[i].category]])

\* get_news_sentiment_data: the DART frame when DART is used, else empty
get_news_sentiment_data(rows, use_dart) ==
    IF use_dart THEN get_dart_disclosure_data(rows) ELSE <<>>

\* get_dart_indicator_data keeping the rows of the first report type only
get_dart_indicator_data_first(rows, report_types) ==
    Filter(rows, {r \in {rows[i] : i \in 1..Len(rows)} :
                    report_types = <<>> \/ r.report_type = report_types[1]})

\* get_dart_indicator_data: rows whose report_type is one of the list
\* report_types (report_type = ANY(:report_types)); no filter for an empty list
get_dart_indicator_data(rows, report_types) ==
    Filter(rows, {r \in {rows[i] : i \in 1..Len(rows)} :
                    \/ report_types = <<>>
                    \/ \E k \in 1..Len(report_types) : r.report_type = report_types[k]})

\* df[df.index <= current_date] on a frame sorted by date
UpTo(df, current_date) ==
    Filter(df, {r \in {df[i] : i \in 1..Len(df)} : r.date <= current_date})

(***************************************************************************)
(* check_indicator_conditions                                              *)
(***************************************************************************)
Abs(x) == IF x < 0 THEN -x ELSE x
Epsilon == 1            \* 1e-6, scores being counted in units of 1e-6

NeutralIndicator ==
    [action |-> "NEUTRAL", report_type |-> <<>>, idc_nm |-> "", idc_score |-> None]

\* check_indicator_conditions left by an exception: the pseudo action "raise"
RaisedIndicator ==
    [action |-> "raise", report_type |-> <<>>, idc_nm |-> "", idc_score |-> None]

\* a condition whose "min" is text (such as "10"): `min_val is not None`
\* holds and the comparison of idc_score with it raises TypeError
condition_raises(c) ==
    c.text_min /\ c.operator \in {"between", ">=", ">", "=="}

condition_met(c, idc_score) ==
    LET min_val == c.min
        max_val == c.max
        operator == c.operator
    IN  CASE operator = "between" ->
                /\ ~(min_val # None /\ idc_score < Val(min_val))
                /\ ~(max_val # None /\ idc_score > Val(max_val))
          [] operator = ">=" -> min_val # None /\ idc_score >= Val(min_val)
          [] operator = "<=" -> max_val # None /\ idc_score <= Val(max_val)
          [] operator = ">"  -> min_val # None /\ idc_score > Val(min_val)
          [] operator = "<"  -> max_val # None /\ idc_score < Val(max_val)
          [] operator = "==" ->
                LET target_val == IF min_val # None THEN min_val ELSE max_val
                IN  target_val # None /\ Abs(idc_score - Val(target_val)) < Epsilon
          [] OTHER -> FALSE

\* the loop over event_indicator_conditions from index k on; the first
\* condition that is met and whose delay has elapsed returns
RECURSIVE check_conditions_from(_, _, _, _)
check_conditions_from(recent, conds, k, current_date) ==
    IF k > Len(conds) THEN NeutralIndicator
    ELSE
      LET c == conds[k]
          matching == Filter(recent, {r \in {recent[i] : i \in 1..Len(recent)} :
                                r.report_type = c.report_type /\ r.idc_nm = c.idc_nm})
      IN  IF matching = <<>>
          THEN check_conditions_from(recent, conds, k + 1, current_date)
          ELSE
            LET latest == matching[Len(matching)]
            IN  IF latest.idc_score = None
                THEN check_conditions_from(recent, conds, k + 1, current_date)
                ELSE IF condition_raises(c.condition) THEN RaisedIndicator
                ELSE IF /\ condition_met(c.condition, Val(latest.idc_score))
                        /\ latest.date + c.delay_days <= current_date
                THEN [action |-> c.action, report_type |-> c.report_type,
                      idc_nm |-> c.idc_nm, idc_score |-> latest.idc_score]
                ELSE check_conditions_from(recent, conds, k + 1, current_date)

check_indicator_conditions(indicator_df, event_indicator_conditions, current_date) ==
    IF indicator_df = <<>> \/ event_indicator_conditions = <<>>
    THEN NeutralIndicator
    ELSE LET recent_indicators == UpTo(indicator_df, current_date)
         IN  IF recent_indicators = <<>> THEN NeutralIndicator
             ELSE check_conditions_from(recent_indicators,
                                        event_indicator_conditions, 1, current_date)

(***************************************************************************)
(* generate_category_signals                                               *)
(***************************************************************************)
\* index of the first event rule whose name occurs in event_type or
\* report_type (the loop breaks there), 0 when no rule matches
RECURSIVE first_event_match(_, _, _)
first_event_match(event_signals, latest, k) ==
    IF k > Len(event_signals) THEN 0
    ELSE IF \/ Contains(event_signals[k].name, latest.event_type)
            \/ Contains(event_signals[k].name, latest.report_type)
    THEN k
    ELSE first_event_match(event_signals, latest, k + 1)

\* step 1: buy_signals / sell_signals after the event-rule loop
event_step(latest, event_signals, current_date) ==
    LET k == first_event_match(event_signals, latest, 1)
    IN  IF k = 0 THEN <<>>
        ELSE LET rule == event_signals[k]
             IN  IF /\ latest.date + rule.delay_days <= current_date
                    /\ rule.action \in {"BUY", "SELL"}
                 THEN << [action |-> rule.action, category |-> latest.category,
                          event_type |-> rule.name] >>
                 ELSE <<>>

\* step 2: consulted when step 1 left buy_signals and sell_signals empty
category_step(latest, category_signals, current_date) ==
    IF latest.category \in DOMAIN category_signals
    THEN LET rule == category_signals[latest.category]
         IN  IF latest.date + rule.delay_days <= current_date
             THEN << [action |-> rule.action, category |-> latest.category,
                      event_type |-> latest.event_type] >>
             ELSE <<>>
    ELSE <<>>

NeutralCategory == [action |-> "NEUTRAL", categories |-> <<>>, event_type |-> <<>>]

generate_category_signals(disclosure_df, category_signals, event_signals, current_date) ==
    IF disclosure_df = <<>> THEN NeutralCategory
    ELSE
      LET recent_disclosures == UpTo(disclosure_df, current_date)
      IN  IF recent_disclosures = <<>> THEN NeutralCategory
          ELSE
            LET latest == recent_disclosures[Len(recent_disclosures)]
                ev == event_step(latest, event_signals, current_date)
                sig == IF ev # <<>> THEN ev
                       ELSE category_step(latest, category_signals, current_date)
            IN  IF sig # <<>> /\ sig[1].action \in {"BUY", "SELL"}
                THEN [action |-> sig[1].action,
                      categories |-> <<sig[1].category>>,
                      event_type |-> sig[1].event_type]
                ELSE [action |-> "NEUTRAL",
                      categories |-> IF sig # <<>> THEN <<sig[1].category>> ELSE <<>>,
                      event_type |-> latest.event_type]

(***************************************************************************)
(* The data of the run: symbols, price bars, frames                        *)
(***************************************************************************)
\* valid_symbols, in the order of the data feeds
selected_symbols == SubSeq(<<"A", "B">>, 1, Len(table))
SymIdx == 1..Len(selected_symbols)

\* the bar of a price series on the b-th simulated day; atr is the value of
\* bt.indicators.ATR(period=14) on that bar
SeriesBar(id, b) ==
    CASE id = "flat" -> [open |-> 100, high |-> 100, low |-> 100, close |-> 100, atr |-> 0]
      [] id = "wide" -> [open |-> 100, high |-> 140, low |-> 70, close |-> 100, atr |-> 10]
      [] id = "gap"  -> IF b % 2 = 1
                        THEN [open |-> 100, high |-> 100, low |-> 100, close |-> 100, atr |-> 0]
                        ELSE [open |-> 200, high |-> 200, low |-> 100, close |-> 100, atr |-> 30]

Bar(i) == SeriesBar(series[i], bar)

\* run_backtest: sentiment_data[symbol]
sentiment_data(i) ==
    IF cfg.use_dart THEN get_dart_disclosure_data(table[i])
    ELSE get_news_sentiment_data(table[i], cfg.use_dart)

\* run_backtest: set([cond.get("report_type") for cond in conditions])
report_types_of(conds) == {conds[k].report_type : k \in 1..Len(conds)}

\* list(set(...)): the elements of the set in the order the hash seed of the
\* process gives them, which can be any order
list_of_set(S) ==
    {p \in [1..Cardinality(S) -> S] : \A a, b \in 1..Cardinality(S) : p[a] = p[b] => a = b}

\* run_backtest loads indicator rows only when DART is used and conditions
\* exist; report_types is the list made of the set
load_indicator_data(i, report_types) ==
    IF cfg.use_dart /\ cfg.event_indicator_conditions # <<>>
    THEN get_dart_indicator_data(table[i], report_types)
    ELSE <<>>

(***************************************************************************)
(* Strategy calls into the engine: buy / sell / close / log_trade          *)
(***************************************************************************)
\* Strategy.buy / Strategy.sell: a new order, Submitted, priced at the given
\* price or at the close of the bar it is created on; size is signed.
\* origin names the call site; rec is the index of the trades_log record
\* that the call site writes with the order (0: it writes none)
NewOrder(ords, i, exectype, size, price, origin, rec) ==
    Append(ords, [id |-> Len(ords) + 1, sym |-> i, exectype |-> exectype,
                  size |-> size, price |-> price, status |-> "Submitted",
                  bar |-> bar, executed |-> 0, origin |-> origin, rec |-> rec,
                  closes |-> FALSE])

\* Strategy.close(data): a market order for the opposite of the position
CloseOrder(ords, i, origin, rec) ==
    IF position[i] = 0 THEN ords
    ELSE NewOrder(ords, i, "Market", -position[i], Bar(i).close, origin, rec)

\* the reason string of a trade: the tier that decided it, the text put into
\* it and, for an indicator condition, the score
Reason(tier, text, score) == [tier |-> tier, text |-> text, score |-> score]
NoReason == Reason("", <<>>, None)

\* PortfolioStrategy.log_trade
log_trade(log, i, d, action, size, price, reason) ==
    Append(log, [date |-> d, symbol |-> selected_symbols[i], action |-> action,
                 size |-> size, price |-> price, amount |-> size * price,
                 reason |-> reason])

\* Python int(a / b) for b > 0: truncation toward zero
TruncDiv(a, b) == IF a >= 0 THEN a \div b ELSE -((-a) \div b)

Min(a, b) == IF a < b THEN a ELSE b
Max(a, b) == IF a > b THEN a ELSE b

(***************************************************************************)
(* PortfolioStrategy.rebalance                                             *)
(***************************************************************************)
\* step 1: close every symbol of portfolio_positions that holds shares; the
\* dict is filled in data-feed order, so its keys iterate in that order
RECURSIVE liquidate(_, _, _)
liquidate(st, i, d) ==
    IF i > Len(selected_symbols) THEN st
    ELSE IF i \in DOMAIN portfolio_positions /\ position[i] > 0
    THEN liquidate([st EXCEPT
                      !.orders = CloseOrder(@, i, "rebalance_close", Len(st.log) + 1),
                      !.log = log_trade(@, i, d, "SELL", position[i], Bar(i).close,
                                        Reason("rebalance", <<>>, None))],
                   i + 1, d)
    ELSE liquidate(st, i + 1, d)

\* the three tiers of the buy decision for symbol i; loc is the pair of
\* locals (disclosure, event_type) that stage 3 reads and that outlive one
\* iteration of the loop over the symbols
buy_tier1(i, d) ==
    IF cfg.use_dart /\ cfg.event_indicator_conditions # <<>> /\ indicator_data[i] # <<>>
    THEN LET indicator_signal ==
                 check_indicator_conditions(indicator_data[i],
                                            cfg.event_indicator_conditions, d)
         IN  \* except Exception: pass
             IF indicator_signal.action = "raise" THEN NeutralIndicator
             ELSE indicator_signal
    ELSE NeutralIndicator

buy_tier2(i, d) ==
    IF /\ cfg.use_dart /\ sentiment_data(i) # <<>>
       /\ (DOMAIN cfg.category_signals # {} \/ cfg.event_signals # <<>>)
    THEN generate_category_signals(sentiment_data(i), cfg.category_signals,
                                   cfg.event_signals, d)
    ELSE NeutralCategory

\* stage 3 looking at the disclosures dated d only
tier3_locals_of_the_day(i, d, loc) ==
    LET today == SelectSeq(sentiment_data(i), LAMBDA r : r.date = d)
    IN  IF today # <<>>
        THEN [disclosure |-> Some(today[Len(today)].disclosure),
              event_type |-> Some(today[Len(today)].event_type)]
        ELSE loc

\* stage 3 assigns the locals only when a disclosure dated <= d exists
tier3_locals(i, d, loc) ==
    LET before_dates == UpTo(sentiment_data(i), d)
    IN  IF before_dates # <<>>
        THEN [disclosure |-> Some(before_dates[Len(before_dates)].disclosure),
              event_type |-> Some(before_dates[Len(before_dates)].event_type)]
        ELSE loc

\* the buy decision when a symbol without any data counts as a buy
buy_decision_without_data(i, d, loc) ==
    LET t1 == buy_tier1(i, d)
        t2 == buy_tier2(i, d)
    IN  IF t1.action = "BUY"
        THEN [should_buy |-> TRUE, loc |-> loc,
              reason |-> Reason("indicator", Append(t1.report_type, t1.idc_nm),
                                t1.idc_score)]
        ELSE IF t2.action = "BUY"
        THEN [should_buy |-> TRUE, loc |-> loc,
              reason |-> Reason("category",
                                IF t2.categories # <<>> THEN t2.categories
                                ELSE t2.event_type, None)]
        ELSE IF cfg.use_dart /\ sentiment_data(i) # <<>>
        THEN LET loc2 == tier3_locals(i, d, loc)
             IN  IF loc2.disclosure # None /\ Val(loc2.disclosure) = 1
                 THEN [should_buy |-> TRUE, loc |-> loc2,
                       reason |-> Reason("disclosure", Val(loc2.event_type), None)]
                 ELSE [should_buy |-> FALSE, loc |-> loc2, reason |-> NoReason]
        ELSE [should_buy |-> TRUE, loc |-> loc,
              reason |-> Reason("disclosure", <<"general">>, None)]

buy_decision(i, d, loc) ==
    LET t1 == buy_tier1(i, d)
        t2 == buy_tier2(i, d)
    IN  IF t1.action = "BUY"
        THEN [should_buy |-> TRUE, loc |-> loc,
              reason |-> Reason("indicator", Append(t1.report_type, t1.idc_nm),
                                t1.idc_score)]
        ELSE IF t2.action = "BUY"
        THEN [should_buy |-> TRUE, loc |-> loc,
              reason |-> Reason("category",
                                IF t2.categories # <<>> THEN t2.categories
                                ELSE t2.event_type, None)]
        ELSE IF cfg.use_dart /\ sentiment_data(i) # <<>>
        THEN LET loc2 == tier3_locals(i, d, loc)
             IN  \* an unbound `disclosure` raises NameError, caught by except
                 IF loc2.disclosure # None /\ Val(loc2.disclosure) = 1
                 THEN [should_buy |-> TRUE, loc |-> loc2,
                       reason |-> Reason("disclosure", Val(loc2.event_type), None)]
                 ELSE [should_buy |-> FALSE, loc |-> loc2, reason |-> NoReason]
        ELSE [should_buy |-> FALSE, loc |-> loc, reason |-> NoReason]

\* the loop over all of selected_symbols, not the first max_positions
RECURSIVE select_and_buy_all(_, _, _, _, _)
select_and_buy_all(st, i, d, cash_per_position, loc) ==
    IF i > Len(selected_symbols) THEN st
    ELSE
      LET dec == buy_decision(i, d, loc)
          size == TruncDiv(cash_per_position.num, cash_per_position.den * Bar(i).close)
      IN  IF dec.should_buy /\ size > 0
          THEN select_and_buy_all(
                 [st EXCEPT
                    !.orders = NewOrder(@, i, "Market", size, Bar(i).close, "buy",
                                        Len(st.log) + 1),
                    !.pp = [j \in DOMAIN @ \cup {i} |-> IF j = i THEN size ELSE @[j]],
                    !.log = log_trade(@, i, d, "BUY", size, Bar(i).close, dec.reason)],
                 i + 1, d, cash_per_position, dec.loc)
          ELSE select_and_buy_all(st, i + 1, d, cash_per_position, dec.loc)

\* step 2: the loop over selected_symbols[:max_positions]
RECURSIVE select_and_buy(_, _, _, _, _)
select_and_buy(st, i, d, cash_per_position, loc) ==
    IF i > Min(Len(selected_symbols), cfg.max_positions) THEN st
    ELSE
      LET dec == buy_decision(i, d, loc)
          size == TruncDiv(cash_per_position.num, cash_per_position.den * Bar(i).close)
      IN  IF dec.should_buy /\ size > 0
          THEN select_and_buy(
                 [st EXCEPT
                    !.orders = NewOrder(@, i, "Market", size, Bar(i).close, "buy",
                                        Len(st.log) + 1),
                    !.pp = [j \in DOMAIN @ \cup {i} |-> IF j = i THEN size ELSE @[j]],
                    !.log = log_trade(@, i, d, "BUY", size, Bar(i).close, dec.reason)],
                 i + 1, d, cash_per_position, dec.loc)
          ELSE select_and_buy(st, i + 1, d, cash_per_position, dec.loc)

UnboundLocals == [disclosure |-> None, event_type |-> None]

\* rebalance dividing the cash by max_positions alone
rebalance_no_min(st, d) ==
    LET sold == liquidate(st, 1, d)
        cleared == [sold EXCEPT !.pp = << >>]
        num_positions == cfg.max_positions
        cash_per_position == [num |-> IF num_positions > 0 THEN cash ELSE 0,
                              den |-> IF num_positions > 0 THEN num_positions ELSE 1]
    IN  select_and_buy(cleared, 1, d, cash_per_position, UnboundLocals)

\* rebalance with its two steps in the other order
rebalance_buys_first(st, d) ==
    LET num_positions == Min(Len(selected_symbols), cfg.max_positions)
        cash_per_position == [num |-> IF num_positions > 0 THEN cash ELSE 0,
                              den |-> IF num_positions > 0 THEN num_positions ELSE 1]
        bought == select_and_buy([st EXCEPT !.pp = << >>], 1, d, cash_per_position,
                                 UnboundLocals)
    IN  [liquidate(bought, 1, d) EXCEPT !.pp = bought.pp]

rebalance(st, d) ==
    LET sold == liquidate(st, 1, d)
        cleared == [sold EXCEPT !.pp = << >>]
        num_positions == Min(Len(selected_symbols), cfg.max_positions)
        \* cash_per_position = getcash() / num_positions, kept as a fraction
        cash_per_position == [num |-> IF num_positions > 0 THEN cash ELSE 0,
                              den |-> IF num_positions > 0 THEN num_positions ELSE 1]
    IN  select_and_buy(cleared, 1, d, cash_per_position, UnboundLocals)

(***************************************************************************)
(* PortfolioStrategy.manage_position                                       *)
(***************************************************************************)
sell_decision(i, d) ==
    LET t1 == buy_tier1(i, d)
        t2 == buy_tier2(i, d)
        before_dates == UpTo(sentiment_data(i), d)
    IN  IF t1.action = "SELL"
        THEN [should_sell |-> TRUE,
              reason |-> Reason("indicator", Append(t1.report_type, t1.idc_nm),
                                t1.idc_score)]
        ELSE IF t2.action = "SELL"
        THEN [should_sell |-> TRUE,
              reason |-> Reason("category",
                                IF t2.categories # <<>> THEN t2.categories
                                ELSE t2.event_type, None)]
        ELSE IF /\ cfg.use_dart /\ sentiment_data(i) # <<>> /\ before_dates # <<>>
                /\ before_dates[Len(before_dates)].disclosure = 2
        THEN [should_sell |-> TRUE,
              reason |-> Reason("disclosure",
                                before_dates[Len(before_dates)].event_type, None)]
        ELSE [should_sell |-> FALSE, reason |-> NoReason]

\* broker.cancel(order) for the orders of symbol i that are Submitted or
\* Accepted: the broker cancels an order only when it finds it in its
\* pending queue, which holds the Accepted orders; an order issued on this
\* bar is still in the submitted queue and stays as it is
cancel_pending(ords, i) ==
    [k \in 1..Len(ords) |->
        IF ords[k].sym = i /\ ords[k].status = "Accepted"
        THEN [ords[k] EXCEPT !.status = "Canceled"]
        ELSE ords[k]]

\* manage_position taking the ATR of the bar as it is, without the floor
manage_position_no_floor(st, i, d) ==
    IF position[i] = 0 THEN st
    ELSE IF sentiment_data(i) = <<>> THEN st
    ELSE
      LET dec == sell_decision(i, d)
          atr == Bar(i).atr
          stop_price == Bar(i).close - StopMult * atr
          take_profit == Bar(i).close + TakeMult * atr
      IN  IF dec.should_sell
          THEN [st EXCEPT
                  !.orders = CloseOrder(@, i, "signal_close", Len(st.log) + 1),
                  !.log = log_trade(@, i, d, "SELL", position[i], Bar(i).close,
                                    dec.reason),
                  !.pp = [j \in DOMAIN @ \ {i} |-> @[j]]]
          ELSE LET kept == cancel_pending(st.orders, i)
               IN  IF position[i] > 0
                   THEN [st EXCEPT !.orders =
                           NewOrder(NewOrder(kept, i, "Stop", -position[i],
                                             stop_price, "stop", 0),
                                    i, "Limit", -position[i], take_profit,
                                    "take_profit", 0)]
                   ELSE [st EXCEPT !.orders = kept]

manage_position(st, i, d) ==
    IF position[i] = 0 THEN st
    ELSE IF sentiment_data(i) = <<>> THEN st
    ELSE
      LET dec == sell_decision(i, d)
          atr == Max(Bar(i).atr, AtrFloor)
          stop_price == Bar(i).close - StopMult * atr
          take_profit == Bar(i).close + TakeMult * atr
      IN  IF dec.should_sell
          THEN [st EXCEPT
                  !.orders = CloseOrder(@, i, "signal_close", Len(st.log) + 1),
                  !.log = log_trade(@, i, d, "SELL", position[i], Bar(i).close,
                                    dec.reason),
                  !.pp = [j \in DOMAIN @ \ {i} |-> @[j]]]
          ELSE LET kept == cancel_pending(st.orders, i)
               IN  IF position[i] > 0
                   THEN [st EXCEPT !.orders =
                           NewOrder(NewOrder(kept, i, "Stop", -position[i],
                                             stop_price, "stop", 0),
                                    i, "Limit", -position[i], take_profit,
                                    "take_profit", 0)]
                   ELSE [st EXCEPT !.orders = kept]

RECURSIVE manage_all(_, _, _)
manage_all(st, i, d) ==
    IF i > Len(selected_symbols) THEN st
    ELSE manage_all(manage_position(st, i, d), i + 1, d)

\* the cadence test with > in place of >=
rebalance_due_strict(d) ==
    \/ rebalance_date = None
    \/ d - Val(rebalance_date) > rebalancing_days(cfg.rebalancing_period)

\* PortfolioStrategy.next: is a rebalance due on date d
rebalance_due(d) ==
    \/ rebalance_date = None
    \/ d - Val(rebalance_date) >= rebalancing_days(cfg.rebalancing_period)

(***************************************************************************)
(* The broker of the engine (bt.Cerebro's broker as run_backtest sets it   *)
(* up). The runs modelled have commission_rate = 0 and slippage_rate = 0.  *)
(***************************************************************************)
Sign(x) == IF x > 0 THEN 1 ELSE IF x < 0 THEN -1 ELSE 0

\* how an execution of `size` splits into closing the position p and
\* opening a new one
Split(p, size) ==
    IF p = 0 \/ Sign(p) = Sign(size) THEN [closed |-> 0, opened |-> size]
    ELSE IF Abs(size) <= Abs(p) THEN [closed |-> size, opened |-> 0]
    ELSE [closed |-> -p, opened |-> size + p]

\* check_submitted: each Submitted order is pseudo-executed, in order, at the
\* price it was created with; it is Accepted when the cash left is >= 0 and
\* rejected (Margin) otherwise. ps = [orders, pos, cash] of the pseudo run
RECURSIVE check_submitted(_, _)
check_submitted(ps, k) ==
    IF k > Len(ps.orders) THEN ps.orders
    ELSE IF ps.orders[k].status # "Submitted" THEN check_submitted(ps, k + 1)
    ELSE
      LET o == ps.orders[k]
          left == ps.cash - o.size * o.price
      IN  check_submitted(
            [orders |-> [ps.orders EXCEPT ![k].status =
                            IF left >= 0 THEN "Accepted" ELSE "Margin"],
             pos    |-> [ps.pos EXCEPT ![o.sym] = @ + o.size],
             cash   |-> left],
            k + 1)

\* the price at which an Accepted order executes on bar b, None when it does
\* not trigger: a market order at the open; a sell stop at the open when the
\* open gaps below it, else at its price once the low reaches it; a sell
\* limit at the open when the open is above it, else at its price once the
\* high reaches it
exec_price(o, b) ==
    CASE o.exectype = "Market" -> Some(b.open)
      [] o.exectype = "Stop" ->
            IF b.open <= o.price THEN Some(b.open)
            ELSE IF b.low <= o.price THEN Some(o.price)
            ELSE None
      [] o.exectype = "Limit" ->
            IF o.price <= b.open THEN Some(b.open)
            ELSE IF o.price <= b.high THEN Some(o.price)
            ELSE None

\* the pending queue, in order: an order that triggers executes the part
\* that closes the position, and the part that opens a new one when the
\* cash covers it; if not, the order ends with status Margin.
\* bs = [orders, pos, cash]
RECURSIVE process_pending(_, _, _)
process_pending(bs, k, nb) ==
    IF k > Len(bs.orders) THEN bs
    ELSE IF bs.orders[k].status # "Accepted" THEN process_pending(bs, k + 1, nb)
    ELSE
      LET o == bs.orders[k]
          px == exec_price(o, SeriesBar(series[o.sym], nb))
      IN  IF px = None THEN process_pending(bs, k + 1, nb)
          ELSE
            LET sp == Split(bs.pos[o.sym], o.size)
                cash1 == bs.cash - sp.closed * Val(px)
                cash2 == cash1 - sp.opened * Val(px)
                opens == sp.opened # 0 /\ cash2 >= 0
                execsize == sp.closed + (IF opens THEN sp.opened ELSE 0)
            IN  process_pending(
                  [orders |-> [bs.orders EXCEPT
                                 ![k].status = IF sp.opened # 0 /\ ~opens
                                               THEN "Margin" ELSE "Completed",
                                 ![k].executed = execsize,
                                 \* the execution ends a trade: the position
                                 \* it found goes to zero (or through zero)
                                 ![k].closes = /\ bs.pos[o.sym] # 0
                                               /\ sp.closed = -bs.pos[o.sym]],
                   pos    |-> [bs.pos EXCEPT ![o.sym] = @ + execsize],
                   cash   |-> IF opens THEN cash2 ELSE cash1],
                  k + 1, nb)

(***************************************************************************)
(* The inputs of a run                                                     *)
(***************************************************************************)
PAIDIN == <<"paidin_increase", "decision">>
REDUCTION == <<"capital_reduction", "decision">>
MERGER == <<"SPAC", "merger", "decision">>

Row(d, rt, cat, nm, score) ==
    [date |-> d, report_type |-> rt, category |-> cat, idc_nm |-> nm, idc_score |-> score]

TablesA ==
    { <<>>,
      << Row(1, PAIDIN, "capital", "dilution", Some(20)) >>,
      << Row(1, PAIDIN, "capital", "dilution", Some(20)),
         Row(2, REDUCTION, "capital", "reduction_ratio", Some(50)) >>,
      << Row(1, MERGER, "merger", "merger_ratio", None) >> }

TablesB ==
    { <<>>,
      << Row(1, PAIDIN, "capital", "dilution", Some(5)) >>,
      << Row(3, PAIDIN, "capital", "dilution", Some(20)) >> }

\* the rows of the symbol of a one-symbol run: one disclosure, before the
\* first simulated day or on it
TablesOne ==
    { << Row(0, PAIDIN, "capital", "dilution", Some(20)) >>,
      << Row(1, PAIDIN, "capital", "dilution", Some(20)) >> }

SeriesChoices ==
    { <<"flat", "flat">>, <<"wide", "flat">>, <<"gap", "flat">> }

Rule(a, n) == [action |-> a, delay_days |-> n]

CategoryConfigs ==
    { << >>,
      [c \in {"capital"} |-> Rule("BUY", 0)],
      [c \in {"capital"} |-> Rule("BUY", 1)],
      [c \in {"capital"} |-> Rule("SELL", 1)] }

EventRule(nm, a, n) == [name |-> nm, action |-> a, delay_days |-> n]

EventConfigs ==
    { << >>,
      << EventRule(<<"capital_reduction">>, "SELL", 0) >>,
      << EventRule(<<"capital_reduction">>, "SELL", 1) >>,
      << EventRule(<<"paidin_increase">>, "NEUTRAL", 0) >> }

Condition(rt, nm, a, n, lo, hi, op) ==
    [report_type |-> rt, idc_nm |-> nm, action |-> a, delay_days |-> n,
     condition |-> [min |-> lo, max |-> hi, operator |-> op, text_min |-> FALSE]]

\* a condition whose "min" was given as text instead of a number
MalformedCondition(rt, nm, a, n, op) ==
    [report_type |-> rt, idc_nm |-> nm, action |-> a, delay_days |-> n,
     condition |-> [min |-> None, max |-> None, operator |-> op, text_min |-> TRUE]]

IndicatorConfigs ==
    { << >>,
      << Condition(PAIDIN, "dilution", "BUY", 0, Some(0), Some(30), "between") >>,
      << Condition(PAIDIN, "dilution", "SELL", 1, Some(10), None, ">=") >> }

Configs ==
    [rebalancing_period : {"daily", "weekly"},
     max_positions : {1, 2, 3},
     use_dart : {TRUE},
     initial_cash : {1000},
     category_signals : CategoryConfigs,
     event_signals : EventConfigs,
     event_indicator_conditions : IndicatorConfigs]
    \cup
    [rebalancing_period : {"monthly"},
     max_positions : {2},
     use_dart : {FALSE},
     initial_cash : {1000},
     category_signals : {[c \in {"capital"} |-> Rule("BUY", 0)]},
     event_signals : {<< >>},
     event_indicator_conditions : {<< >>}]
    \cup
    [rebalancing_period : {"daily"},
     max_positions : {2},
     use_dart : {TRUE},
     initial_cash : {1000},
     category_signals : {<< >>},
     event_signals : {<< >>},
     event_indicator_conditions :
        {<< Condition(REDUCTION, "reduction_ratio", "SELL", 0, Some(40), None, ">="),
            Condition(PAIDIN, "dilution", "BUY", 0, Some(0), Some(30), "between") >>,
         << MalformedCondition(PAIDIN, "dilution", "SELL", 0, ">=") >>}]

\* the trading calendar of the price data: calendar days from bar b - 1 to
\* bar b; "daily" has a bar every day, "weekends" skips two days after every
\* second bar
Calendars == {"daily", "weekends"}
Gap(cal, b) == IF cal = "weekends" /\ b % 2 = 0 THEN 3 ELSE 1

(***************************************************************************)
(* run_backtest before the simulation: universe, screening, cut, loading   *)
(***************************************************************************)
Elems(s) == {s[i] : i \in 1..Len(s)}

Symbols == {"S1", "S2", "S3", "S4"}

\* DataLoader._get_all_symbols: the symbols of daily_stock_price, ordered;
\* a failed query gives the empty list
get_all_symbols(db) == db.market

\* the loop over target_corp_names: the stock_code of every name that has one
RECURSIVE resolve_corp_names(_, _)
resolve_corp_names(names, db) ==
    IF names = <<>> THEN <<>>
    ELSE (IF Head(names) \in DOMAIN db.corp THEN <<db.corp[Head(names)]>> ELSE <<>>)
         \o resolve_corp_names(Tail(names), db)

\* get_universe_symbols with the market list in place of the targets
get_universe_symbols_market(input, db) == get_all_symbols(db)

\* DataLoader.get_universe_symbols
get_universe_symbols(input, db) ==
    IF input.target_symbols # <<>> THEN input.target_symbols
    ELSE IF input.target_corp_names # <<>>
    THEN LET symbols == resolve_corp_names(input.target_corp_names, db)
         IN  IF symbols # <<>> THEN symbols ELSE get_all_symbols(db)
    ELSE get_all_symbols(db)

\* symbol_to_score.get(s, 0.0) as a function of the symbol
ScoreFn(scores) ==
    [s \in Symbols |-> IF s \in DOMAIN scores.score THEN scores.score[s] ELSE 0]

\* list.sort(key=score, reverse=reverse): x goes after every element that
\* does not have to follow it, so equal scores keep their order (also with
\* reverse=True)
RECURSIVE InsertSorted(_, _, _, _)
InsertSorted(sorted, x, score, reverse) ==
    IF sorted = <<>> THEN <<x>>
    ELSE LET h == Head(sorted)
             stays == IF reverse THEN score[h] >= score[x] ELSE score[h] <= score[x]
         IN  IF stays THEN <<h>> \o InsertSorted(Tail(sorted), x, score, reverse)
             ELSE <<x>> \o sorted

Reverse(s) == [i \in 1..Len(s) |-> s[Len(s) + 1 - i]]

\* a descending sort made of an ascending sort followed by a reversal
RECURSIVE sort_then_reverse(_, _, _)
sort_then_reverse(list, score, reverse) ==
    IF reverse THEN Reverse(sort_then_reverse(list, score, FALSE))
    ELSE IF list = <<>> THEN <<>>
    ELSE InsertSorted(sort_then_reverse(SubSeq(list, 1, Len(list) - 1), score, FALSE),
                      list[Len(list)], score, FALSE)

RECURSIVE sort(_, _, _)
sort(list, score, reverse) ==
    IF list = <<>> THEN <<>>
    ELSE InsertSorted(sort(SubSeq(list, 1, Len(list) - 1), score, reverse),
                      list[Len(list)], score, reverse)

\* Python 3 round(num / den) for num >= 0, den > 0: halves go to the even side
round(num, den) ==
    LET q == num \div den
        r == num % den
    IN  IF 2 * r < den THEN q
        ELSE IF 2 * r > den THEN q + 1
        ELSE IF q % 2 = 0 THEN q ELSE q + 1

\* _apply_metric_filter_and_sort; scores = [keys, score] is the dict in
\* insertion order, filter_percent is in whole percent
apply_metric_filter_and_sort(scores, filter_type, filter_percent, filter_value, sort_ascending) ==
    LET score == ScoreFn(scores)
        Kept(sym) == IF sort_ascending THEN score[sym] <= Val(filter_value)
                     ELSE score[sym] >= Val(filter_value)
        cut == IF filter_type = Some("value") /\ filter_value # None
               THEN SelectSeq(scores.keys, Kept)
               ELSE scores.keys
        items == sort(cut, score, ~sort_ascending)
    IN  IF filter_type \in {Some("top"), Some("bottom")} /\ filter_percent # None
        THEN LET p == Max(0, Min(100, Val(filter_percent)))
                 k == Max(1, round(Len(items) * p, 100))
             IN  IF p = 0 THEN <<>>
                 ELSE IF filter_type = Some("top")
                 THEN SubSeq(items, 1, Min(k, Len(items)))
                 ELSE SubSeq(items, Max(1, Len(items) - k + 1), Len(items))
        ELSE items

ScoredSortKeys == {"momentum", "market_cap", "event_type", "disclosure",
                   "sentiment_score", "fundamental"}

NoScores == [keys |-> <<>>, score |-> <<>>]

\* the work of the scoring function of sort_by for one symbol: Some(score),
\* or None when a query or a computation in it raises;
\* get_fundamental_screening_score returns 0.0 and does nothing else
score_call(input, sym, db) ==
    IF input.sort_by = "fundamental" THEN Some(0)
    ELSE IF sym \in db.failing THEN None
    ELSE Some(db.score[sym])

\* scoring one symbol with no handler around the work: a failure leaves the
\* loop and the symbol gets no entry
score_entry_unguarded(input, sym, db) ==
    LET call == score_call(input, sym, db)
    IN  [kept |-> call # None, score |-> IF call = None THEN 0 ELSE Val(call),
         raised |-> call = None]

\* scoring one symbol: the scoring functions and the loop of run_backtest
\* catch every exception and put 0.0 in its place; kept: the symbol gets an
\* entry in symbol_to_score; raised: an exception leaves run_backtest
score_entry(input, sym, db) ==
    LET call == score_call(input, sym, db)
    IN  [kept |-> TRUE, score |-> IF call = None THEN 0 ELSE Val(call),
         raised |-> FALSE]

\* run_backtest, stage 3 (A): score every universe symbol, screen, fall back
\* to all scored symbols when the screen is empty, sort
screening(input, universe, db) ==
    IF input.sort_by \in ScoredSortKeys
    THEN LET Kept(sym) == score_entry(input, sym, db).kept
             keys == SelectSeq(Distinct(universe), Kept)
             scores == [keys |-> keys,
                        score |-> [sym \in Elems(keys) |-> score_entry(input, sym, db).score]]
             scr == apply_metric_filter_and_sort(scores, input.filter_type,
                        input.filter_percent, input.filter_value, input.sort_ascending)
             selected == IF scr # <<>> THEN scr ELSE scores.keys
         IN  [symbol_to_score |-> scores, screened |-> scr,
              selected_symbols |-> sort(selected, ScoreFn(scores),
                                        ~input.sort_ascending),
              raised |-> \E sym \in Elems(universe) : score_entry(input, sym, db).raised]
    ELSE [symbol_to_score |-> NoScores, screened |-> <<>>,
          selected_symbols |-> universe, raised |-> FALSE]

\* BacktestOutput(): the defaults of the dataclass
BacktestOutput ==
    [cumulative_return |-> 0, total_return |-> 0, annualized_return |-> 0, mdd |-> 0,
     sharpe_ratio |-> 0, win_rate |-> 0, total_trades |-> 0, total_profit |-> 0,
     total_loss |-> 0, trades |-> << >>, report |-> "", event_performance |-> << >>]

\* run_backtest going on to the engine whatever was loaded
after_load_unchecked(price_data) == "loaded"

\* run_backtest after the loading loop: `if not price_data: return BacktestOutput()`
after_load(price_data) == IF price_data = {} THEN "returned" ELSE "loaded"

\* the inputs of the selection
TargetChoices ==
    { [target_symbols |-> t, target_corp_names |-> <<>>] :
        t \in {<<>>, <<"S2">>, <<"S3", "S1">>, <<"S4", "S2", "S1">>} }
    \cup
    { [target_symbols |-> <<>>, target_corp_names |-> c] :
        c \in {<<"CorpB">>, <<"Unknown">>, <<"CorpA", "Unknown">>} }
    \cup
    { [target_symbols |-> <<"S3">>, target_corp_names |-> <<"CorpA">>] }

FilterChoices ==
    { [filter_type |-> None, filter_percent |-> None, filter_value |-> None] }
    \cup
    { [filter_type |-> Some(t), filter_percent |-> p, filter_value |-> None] :
        t \in {"top", "bottom"},
        p \in {None, Some(-10), Some(0), Some(40), Some(50), Some(100), Some(150)} }
    \cup
    { [filter_type |-> Some("value"), filter_percent |-> None, filter_value |-> v] :
        v \in {None, Some(2), Some(9)} }

ScreenInputs ==
    { [target_symbols |-> t.target_symbols, target_corp_names |-> t.target_corp_names,
       sort_by |-> "disclosure", sort_ascending |-> a,
       filter_type |-> f.filter_type, filter_percent |-> f.filter_percent,
       filter_value |-> f.filter_value, max_portfolio_size |-> m] :
        t \in TargetChoices, f \in FilterChoices, a \in BOOLEAN, m \in {2, 20} }
    \cup
    { [target_symbols |-> t.target_symbols, target_corp_names |-> t.target_corp_names,
       sort_by |-> "custom", sort_ascending |-> FALSE,
       filter_type |-> Some("top"), filter_percent |-> Some(50),
       filter_value |-> None, max_portfolio_size |-> m] :
        t \in TargetChoices, m \in {2, 20} }
    \cup
    { [target_symbols |-> t.target_symbols, target_corp_names |-> t.target_corp_names,
       sort_by |-> k, sort_ascending |-> FALSE,
       filter_type |-> None, filter_percent |-> None,
       filter_value |-> None, max_portfolio_size |-> 20] :
        t \in TargetChoices, k \in {"momentum", "sentiment_score", "fundamental"} }

ScoreMaps ==
    { [s \in Symbols |-> 5],
      [s \in Symbols |-> CASE s = "S1" -> 3 [] s = "S2" -> 1 [] s = "S3" -> 2 [] OTHER -> 1],
      [s \in Symbols |-> CASE s = "S1" -> 1 [] s = "S2" -> 3 [] s = "S3" -> 3 [] OTHER -> 9] }

Databases ==
    [market : {<<>>, <<"S1", "S2", "S3", "S4">>},
     corp   : {[c \in {"CorpA", "CorpB"} |-> IF c = "CorpA" THEN "S1" ELSE "S2"]},
     score  : ScoreMaps,
     priced : {Symbols, {"S1", "S2"}},
     failing : {{}, {"S1", "S4"}}]

\* the selection stage at rest, for the runs that follow the simulation only
ScreenIdle ==
    /\ input_params = << >>
    /\ database = << >>
    /\ stage = "idle"
    /\ universe_symbols = << >>
    /\ symbol_to_score = NoScores
    /\ screened = << >>
    /\ sorted_symbols = << >>
    /\ cut_symbols = << >>
    /\ valid_symbols = << >>
    /\ output = None

\* no job in hand, for the runs that follow run_backtest only
JobIdle ==
    /\ environ = << >>
    /\ stock_db = << >>
    /\ web_db = << >>
    /\ job = None
    /\ jpc = "idle"
    /\ backtest_params = << >>
    /\ retry_count = 0
    /\ output_dict = None
    /\ calls = << >>

\* no worker is claiming
ClaimIdle ==
    /\ row_lock = << >>
    /\ conn = << >>
    /\ returned = << >>

(***************************************************************************)
(* The state machine                                                       *)
(***************************************************************************)
Init ==
    /\ cfg \in Configs
    /\ \/ /\ table \in {<<a, b>> : a \in TablesA, b \in TablesB}
          /\ series \in SeriesChoices
       \/ /\ table \in {<<a>> : a \in TablesOne}
          /\ series \in {<<"flat">>, <<"wide">>}
    /\ calendar \in Calendars
    /\ bar = 0
    /\ date = 0
    /\ pc = "broker"
    /\ rebalance_date = None
    /\ prev_rebalance = None
    /\ portfolio_positions = << >>
    /\ trades_log = << >>
    /\ orders = << >>
    /\ position = [i \in SymIdx |-> 0]
    /\ cash = cfg.initial_cash
    /\ \E report_types \in list_of_set(report_types_of(cfg.event_indicator_conditions)) :
          indicator_data = [i \in SymIdx |-> load_indicator_data(i, report_types)]
    /\ ScreenIdle
    /\ JobIdle
    /\ ClaimIdle

\* the engine moves to the next bar and the broker works on the orders
\* issued before it
BrokerNext ==
    /\ pc = "broker"
    /\ bar < MaxBar
    /\ LET accepted == check_submitted([orders |-> orders, pos |-> position,
                                          cash |-> cash], 1)
           done == process_pending([orders |-> accepted, pos |-> position,
                                    cash |-> cash], 1, bar + 1)
      IN  /\ bar' = bar + 1
          /\ date' = date + Gap(calendar, bar + 1)
          /\ orders' = done.orders
          /\ position' = done.pos
          /\ cash' = done.cash
    /\ pc' = "strategy"
    /\ UNCHANGED <<cfg, table, series, calendar, rebalance_date, prev_rebalance,
                   portfolio_positions, trades_log, indicator_data>>
    /\ UNCHANGED screen_vars
    /\ UNCHANGED <<job_vars, claim_vars>>

\* PortfolioStrategy.next on the current bar
StrategyNext ==
    /\ pc = "strategy"
    /\ LET st0 == [orders |-> orders, log |-> trades_log, pp |-> portfolio_positions]
           st1 == IF rebalance_due(date) THEN rebalance(st0, date) ELSE st0
           st2 == manage_all(st1, 1, date)
       IN  /\ orders' = st2.orders
           /\ trades_log' = st2.log
           /\ portfolio_positions' = st2.pp
    /\ prev_rebalance' = rebalance_date
    /\ rebalance_date' = IF rebalance_due(date) THEN Some(date) ELSE rebalance_date
    /\ pc' = IF bar = MaxBar THEN "done" ELSE "broker"
    /\ UNCHANGED <<cfg, table, series, calendar, bar, date, position, cash,
                   indicator_data>>
    /\ UNCHANGED screen_vars
    /\ UNCHANGED <<job_vars, claim_vars>>

Next == BrokerNext \/ StrategyNext

Spec == Init /\ [][Next]_vars

\* run_backtest up to cerebro.run: the simulation at rest
BacktestIdle ==
    /\ cfg = [rebalancing_period |-> "monthly", max_positions |-> 1, use_dart |-> TRUE,
              initial_cash |-> 1000, category_signals |-> << >>,
              event_signals |-> << >>, event_indicator_conditions |-> << >>]
    /\ table = << <<>>, <<>> >>
    /\ series = <<"flat", "flat">>
    /\ calendar = "daily"
    /\ bar = 0
    /\ date = 0
    /\ pc = "idle"
    /\ rebalance_date = None
    /\ prev_rebalance = None
    /\ portfolio_positions = << >>
    /\ trades_log = << >>
    /\ orders = << >>
    /\ position = [i \in SymIdx |-> 0]
    /\ cash = 1000
    /\ indicator_data = [i \in SymIdx |-> << >>]

ScreenInit ==
    /\ BacktestIdle
    /\ JobIdle
    /\ ClaimIdle
    /\ input_params \in ScreenInputs
    /\ database \in Databases
    /\ stage = "start"
    /\ universe_symbols = << >>
    /\ symbol_to_score = NoScores
    /\ screened = << >>
    /\ sorted_symbols = << >>
    /\ cut_symbols = << >>
    /\ valid_symbols = << >>
    /\ output = None

\* stage 2: the universe; an empty universe ends the run
UniverseStep ==
    /\ stage = "start"
    /\ universe_symbols' = get_universe_symbols(input_params, database)
    /\ stage' = IF universe_symbols' = << >> THEN "returned" ELSE "universe"
    /\ output' = IF universe_symbols' = << >> THEN Some(BacktestOutput) ELSE None
    /\ UNCHANGED <<input_params, database, symbol_to_score, screened, sorted_symbols,
                   cut_symbols, valid_symbols>>
    /\ UNCHANGED backtest_vars
    /\ UNCHANGED <<job_vars, claim_vars>>

\* stage 3 (A): screening by sort_by
ScreeningStep ==
    /\ stage = "universe"
    /\ LET r == screening(input_params, universe_symbols, database)
       IN  /\ symbol_to_score' = r.symbol_to_score
           /\ screened' = r.screened
           /\ sorted_symbols' = r.selected_symbols
           /\ stage' = IF r.raised THEN "raised" ELSE "screened"
    /\ UNCHANGED <<input_params, database, universe_symbols, cut_symbols, valid_symbols,
                   output>>
    /\ UNCHANGED backtest_vars
    /\ UNCHANGED <<job_vars, claim_vars>>

\* stage 3 (C): selected_symbols[:max_portfolio_size]
CutStep ==
    /\ stage = "screened"
    /\ cut_symbols' = SubSeq(sorted_symbols, 1,
                             Min(Len(sorted_symbols), input_params.max_portfolio_size))
    /\ stage' = "cut"
    /\ UNCHANGED <<input_params, database, universe_symbols, symbol_to_score, screened,
                   sorted_symbols, valid_symbols, output>>
    /\ UNCHANGED backtest_vars
    /\ UNCHANGED <<job_vars, claim_vars>>

\* stages 4 and 5: a data feed for every selected symbol with price data
LoadStep ==
    /\ stage = "cut"
    /\ LET HasPrices(sym) == sym \in database.priced
           price_data == {sym \in Elems(cut_symbols) : HasPrices(sym)}
       IN  /\ stage' = after_load(price_data)
           /\ valid_symbols' = IF stage' = "returned" THEN << >>
                               ELSE SelectSeq(cut_symbols, HasPrices)
           /\ output' = IF stage' = "returned" THEN Some(BacktestOutput) ELSE None
    /\ UNCHANGED <<input_params, database, universe_symbols, symbol_to_score, screened,
                   sorted_symbols, cut_symbols>>
    /\ UNCHANGED backtest_vars
    /\ UNCHANGED <<job_vars, claim_vars>>

ScreenNext == UniverseStep \/ ScreeningStep \/ CutStep \/ LoadStep

ScreenSpec == ScreenInit /\ [][ScreenNext]_vars

(***************************************************************************)
(* The job pipeline: worker.py (main, _process_one, _resolve_backtest_input)*)
(* and agents/orchestrator.py (process_job and its helpers).               *)
(*                                                                         *)
(* A parameter dict is a record of optionals (None: the key is absent).    *)
(* Dates are day numbers; BadDate is a string strptime rejects; NotInt is  *)
(* a value int() rejects.                                                  *)
(***************************************************************************)
JobIds == {"job-1"}
CodeOrder == <<"000660", "005930", "ABC">>  \* the strings used as codes, sorted
SixDigit == {"000660", "005930"}       \* len(s) == 6 and s.isdigit()
BadDate == 0 - 1
NotInt == 0 - 1000
Today == 2                              \* date.today()
DefaultMaxPositions == 10               \* BacktestInput.max_positions
DefaultMaxPortfolioSize == 20           \* BacktestInput.max_portfolio_size
DefaultStartDate == 1                   \* BacktestInput.start_date
DefaultEndDate == 3                     \* BacktestInput.end_date
PositionsCap == 20                      \* max(1, min(20, mp))
PortfolioCap == 50                      \* max(1, min(50, mps))
WorkerPositionsCap == 10                \* max(1, min(10, len(target_symbols)))

\* sorted(set(...)) of stock codes
sorted_set(S) == SelectSeq(CodeOrder, LAMBDA c : c \in S)

\* dict.get(key) or []
get_or_empty(o) == IF o = None THEN << >> ELSE Val(o)

NoParams ==
    [target_symbols |-> None, target_corp_names |-> None, start_date |-> None,
     end_date |-> None, max_positions |-> None, max_portfolio_size |-> None,
     event_indicator_conditions |-> None, use_dart_disclosure |-> None]

\* dict.setdefault on an optional field
setdefault(cur, val) == IF cur = None THEN Some(val) ELSE cur

\* _extract_parameters, then the legacy stock_symbol mapping and the parsed
\* request, each written with setdefault
merge_backtest_params(payload, parsed) ==
    LET params == payload.parameters
        p1 == IF payload.stock_symbol # None
              THEN [params EXCEPT !.target_symbols =
                        setdefault(@, <<Val(payload.stock_symbol)>>)]
              ELSE params
        has(f) == f # None
        pr == Val(parsed)
    IN  IF parsed = None THEN p1
        ELSE [p1 EXCEPT
                !.target_symbols = IF has(pr.target_symbols) /\ Val(pr.target_symbols) # << >>
                                   THEN setdefault(@, Val(pr.target_symbols)) ELSE @,
                !.target_corp_names = IF has(pr.target_corp_names)
                                         /\ Val(pr.target_corp_names) # << >>
                                      THEN setdefault(@, Val(pr.target_corp_names)) ELSE @,
                !.start_date = IF has(pr.start_date) THEN setdefault(@, Val(pr.start_date))
                               ELSE @,
                !.end_date = IF has(pr.end_date) THEN setdefault(@, Val(pr.end_date)) ELSE @,
                !.max_positions = IF has(pr.max_positions)
                                  THEN setdefault(@, Val(pr.max_positions)) ELSE @,
                !.max_portfolio_size = IF has(pr.max_portfolio_size)
                                       THEN setdefault(@, Val(pr.max_portfolio_size)) ELSE @,
                !.use_dart_disclosure = IF has(pr.use_dart_disclosure)
                                        THEN setdefault(@, Val(pr.use_dart_disclosure))
                                        ELSE @]

\* _valid_date: a non-blank string strptime accepts
valid_date(o) == o # None /\ Val(o) # BadDate

\* max(1, min(cap, int(v))); the key is dropped when int() raises
clamp(o, cap) ==
    IF o = None THEN None
    ELSE IF Val(o) = NotInt THEN None
    ELSE Some(Max(1, Min(cap, Val(o))))

\* _apply_param_guardrails
apply_param_guardrails(params) ==
    LET raw == get_or_empty(params.target_symbols)
        target_symbols == sorted_set(Elems(raw) \cap SixDigit)
        p1 == IF target_symbols # << >>
              THEN [params EXCEPT !.target_symbols = Some(target_symbols)]
              ELSE params
        p2 == [p1 EXCEPT
                 !.start_date = IF @ # None /\ ~valid_date(@) THEN None ELSE @,
                 !.end_date = IF @ # None /\ ~valid_date(@) THEN None ELSE @]
        p3 == IF valid_date(p2.start_date) /\ valid_date(p2.end_date)
                 /\ Val(p2.start_date) > Val(p2.end_date)
              THEN [p2 EXCEPT !.start_date = p2.end_date, !.end_date = p2.start_date]
              ELSE p2
    IN  [p3 EXCEPT !.max_positions = clamp(@, PositionsCap),
                   !.max_portfolio_size = clamp(@, PortfolioCap)]

\* _maybe_apply_years_range_from_query; years is the N of "N년" in the query
\* (None without one)
maybe_apply_years_range_from_query(params, query) ==
    IF query = None THEN params
    ELSE IF params.start_date # None /\ params.end_date # None THEN params
    ELSE IF Val(query).years = None THEN params
    ELSE IF Val(Val(query).years) <= 0 \/ Val(Val(query).years) > 30 THEN params
    ELSE [params EXCEPT !.end_date = setdefault(@, Today),
                        !.start_date = setdefault(@, Today - Val(Val(query).years))]

\* _apply_adjustment
apply_adjustment(params, adj) ==
    LET p1 == [params EXCEPT
                 !.start_date = IF adj.new_start_date # None THEN adj.new_start_date ELSE @,
                 !.end_date = IF adj.new_end_date # None THEN adj.new_end_date ELSE @]
        cur == get_or_empty(p1.target_symbols)
        p2 == IF adj.drop_symbols # {}
              THEN [p1 EXCEPT !.target_symbols =
                        Some(sorted_set(Elems(cur) \ adj.drop_symbols))]
              ELSE p1
        p3 == IF adj.disable_event_indicator_conditions
              THEN [p2 EXCEPT !.event_indicator_conditions = Some(<< >>)]
              ELSE p2
    IN  IF adj.set_use_dart_disclosure # None
        THEN [p3 EXCEPT !.use_dart_disclosure = adj.set_use_dart_disclosure]
        ELSE p3

\* BacktestInput(**params): the dataclass fills the absent keys with its
\* defaults and checks nothing
BacktestInput(params) ==
    [target_symbols |-> get_or_empty(params.target_symbols),
     max_positions |-> IF params.max_positions = None THEN DefaultMaxPositions
                       ELSE Val(params.max_positions),
     max_portfolio_size |-> IF params.max_portfolio_size = None
                            THEN DefaultMaxPortfolioSize
                            ELSE Val(params.max_portfolio_size),
     start_date |-> IF params.start_date = None THEN DefaultStartDate
                    ELSE Val(params.start_date),
     end_date |-> IF params.end_date = None THEN DefaultEndDate ELSE Val(params.end_date),
     use_dart_disclosure |-> IF params.use_dart_disclosure = None THEN TRUE
                             ELSE Val(params.use_dart_disclosure)]

\* resolve_symbols_impl: the codes the company names and the query's name
\* tokens have in score_table_dart_idc, and the 6-digit codes written in the
\* query, as a sorted list without repeats
resolve_symbols_impl(corp_names, query, db) ==
    sorted_set((IF corp_names # << >> \/ query # None THEN db.corp ELSE {})
               \cup (IF query # None THEN Val(query).codes ELSE {}))

\* _resolve_backtest_input: None when it raises ValueError
resolve_backtest_input(payload, db, allow_full) ==
    LET query == payload.query
        no_target(p) == /\ get_or_empty(p.target_symbols) = << >>
                        /\ get_or_empty(p.target_corp_names) = << >>
        p1 == IF payload.stock_symbol # None
              THEN [payload.parameters EXCEPT !.target_symbols =
                        setdefault(@, <<Val(payload.stock_symbol)>>)]
              ELSE payload.parameters
        p2 == IF query # None /\ Val(query).codes # {} /\ no_target(p1)
              THEN [p1 EXCEPT !.target_symbols = Some(sorted_set(Val(query).codes))]
              ELSE p1
        p3 == IF query # None /\ no_target(p2) /\ db.corp # {}
              THEN [p2 EXCEPT !.target_symbols = Some(sorted_set(db.corp))]
              ELSE p2
        p4 == IF get_or_empty(p3.target_corp_names) # << >>
                 /\ get_or_empty(p3.target_symbols) = << >> /\ db.corp # {}
              THEN [p3 EXCEPT !.target_symbols = Some(sorted_set(db.corp))]
              ELSE p3
        has_target_symbols == get_or_empty(p4.target_symbols) # << >>
        has_target_corp_names == get_or_empty(p4.target_corp_names) # << >>
        n == Len(get_or_empty(p4.target_symbols))
        p5 == IF has_target_symbols
              THEN [p4 EXCEPT
                      !.max_portfolio_size = setdefault(@, Max(1, n)),
                      !.max_positions = setdefault(@, Max(1, Min(WorkerPositionsCap, n)))]
              ELSE p4
    IN  IF ~allow_full /\ ~has_target_symbols /\ ~has_target_corp_names THEN None
        ELSE IF ~has_target_symbols /\ has_target_corp_names THEN None
        ELSE Some(BacktestInput(p5))

\* the same without the test for an empty symbol list
preflight_ok_unchecked(params, db) ==
    LET symbols == BacktestInput(params).target_symbols
        missing_price == {i \in 1..Len(symbols) : symbols[i] \notin db.priced}
    IN  Cardinality(missing_price) <= Len(symbols)

\* preflight_data_check_impl: PreflightReport.ok
preflight_ok(params, db) ==
    LET symbols == BacktestInput(params).target_symbols
        missing_price == {i \in 1..Len(symbols) : symbols[i] \notin db.priced}
    IN  symbols # << >> /\ Cardinality(missing_price) < Len(symbols)

\* _build_output_summary: the metrics of the output, without trades and report
build_output_summary(out) ==
    [total_return |-> out.total_return, total_trades |-> out.total_trades]

\* str.strip on the keys the report agent may give
strip(k) == CASE k = " ok " -> "ok" [] k = " " -> "" [] OTHER -> k

\* d.setdefault(k, v) on a dict kept as a list of <<key, value>>
dict_set_first(d, k, v) ==
    IF \E i \in 1..Len(d) : d[i][1] = k THEN d ELSE Append(d, <<k, v>>)

\* d[k] = v on a dict kept as a list of <<key, value>> in insertion order
dict_set(d, k, v) ==
    IF \E i \in 1..Len(d) : d[i][1] = k
    THEN [i \in 1..Len(d) |-> IF d[i][1] = k THEN <<k, v>> ELSE d[i]]
    ELSE Append(d, <<k, v>>)

RECURSIVE analysis_json_from(_, _, _)
analysis_json_from(items, i, d) ==
    IF i > Len(items) THEN d
    ELSE analysis_json_from(items, i + 1,
            IF strip(items[i].key) # "" THEN dict_set(d, strip(items[i].key), items[i].value)
            ELSE d)

\* process_job: FinalNarrative.analysis_json (key/value items) as a dict
analysis_json_dict(items) == analysis_json_from(items, 1, << >>)

(***************************************************************************)
(* The inputs of a job                                                     *)
(***************************************************************************)
Query(codes, years) == [codes |-> codes, years |-> years]

Parameters(ts, names, sd, ed, mp, mps) ==
    [NoParams EXCEPT !.target_symbols = ts, !.target_corp_names = names,
                     !.start_date = sd, !.end_date = ed,
                     !.max_positions = mp, !.max_portfolio_size = mps]

Payloads ==
    {[parameters |-> Parameters(ts, None, None, None, mp, mps), stock_symbol |-> None,
      query |-> None] :
        ts \in {None, Some(<<"005930", "000660">>), Some(<<"ABC">>)},
        mp \in {None, Some(0), Some(8), Some(25), Some(NotInt)},
        mps \in {None, Some(5), Some(60)}}
    \cup
    {[parameters |-> Parameters(None, names, sd, ed, None, None), stock_symbol |-> ss,
      query |-> q] :
        names \in {None, Some(<<"samsung">>)},
        sd \in {None, Some(3), Some(BadDate)},
        ed \in {None, Some(1)},
        ss \in {None, Some("005930")},
        q \in {None, Some(Query({}, Some(1))), Some(Query({"000660"}, None))}}

ParsedRequests ==
    {[target_symbols |-> None, target_corp_names |-> Some(<<"samsung">>),
      start_date |-> Some(1), end_date |-> Some(3), max_positions |-> mp,
      max_portfolio_size |-> None, use_dart_disclosure |-> None] :
        mp \in {None, Some(15)}}
    \cup
    {[target_symbols |-> None, target_corp_names |-> Some(<<"samsung">>),
      start_date |-> None, end_date |-> None, max_positions |-> None,
      max_portfolio_size |-> None, use_dart_disclosure |-> None]}

NoAdjustment ==
    [new_start_date |-> None, new_end_date |-> None, drop_symbols |-> {},
     disable_event_indicator_conditions |-> FALSE, set_use_dart_disclosure |-> None]

AdjustmentPlans ==
    {NoAdjustment,
     [NoAdjustment EXCEPT !.drop_symbols = {"005930"}, !.new_start_date = Some(3)],
     [NoAdjustment EXCEPT !.drop_symbols = {"000660", "005930"},
                          !.disable_event_indicator_conditions = TRUE,
                          !.set_use_dart_disclosure = Some(FALSE)]}

AuditResults ==
    {[score |-> "pass", needs_retry |-> FALSE],
     [score |-> "pass", needs_retry |-> TRUE],
     [score |-> "needs_improvement", needs_retry |-> FALSE],
     [score |-> "fail", needs_retry |-> FALSE]}

Outputs == {[total_return |-> 1, total_trades |-> 1, trades |-> <<"005930">>]}

AnalysisItem(k, v) == [key |-> k, value |-> v]

Narratives ==
    {[analysis_md |-> "report", analysis_json |-> <<AnalysisItem("ok", "v1")>>],
     [analysis_md |-> "report",
      analysis_json |-> <<AnalysisItem(" ok ", "v1"), AnalysisItem(" ", "v1"),
                          AnalysisItem("n", "v1"), AnalysisItem("ok", "v2")>>]}

Environments ==
    [OPENAI_API_KEY : BOOLEAN, ALLOW_FULL_UNIVERSE : BOOLEAN,
     BACKTEST_AGENT_MAX_RETRIES : {0, 1}, DATABASE_URL : {TRUE}]
    \cup
    [OPENAI_API_KEY : BOOLEAN, ALLOW_FULL_UNIVERSE : {FALSE},
     BACKTEST_AGENT_MAX_RETRIES : {1}, DATABASE_URL : {FALSE}]

StockDbs == [corp : {{}, {"005930"}}, priced : {{}, {"005930"}}]

(***************************************************************************)
(* worker.main and process_job as a state machine                          *)
(***************************************************************************)
Call(fn, result, arg) == [fn |-> fn, result |-> result, arg |-> arg]

CallsTo(fn) == {i \in 1..Len(calls) : calls[i].fn = fn}

\* the job dict in hand
job_id == Val(job).job_id
job_payload == Val(job).input_json

\* a write to the backtesting table raises without a DATABASE_URL; with one
\* it returns, raises before the UPDATE has run (asyncpg.connect, execute),
\* or raises after it has (`finally: await conn.close()`)
DbOutcomes == IF environ.DATABASE_URL THEN {"ok", "raise", "raise_after"} ELSE {"raise"}

returns(o) == o = "ok"

applied(o) == o # "raise"

outcome(ok) == IF ok THEN "ok" ELSE "raise"

\* UPDATE ... SET status = st WHERE job_id = id
mark_job(db, id, st) == [db EXCEPT ![id].status = st, ![id].history = Append(@, st)]

\* a row of the table with its first status
JobRow(st, input_json) == [status |-> st, input_json |-> input_json, history |-> <<st>>]

JobInit ==
    /\ BacktestIdle
    /\ ScreenIdle
    /\ ClaimIdle
    /\ environ \in Environments
    /\ stock_db \in StockDbs
    /\ \E input_json \in Payloads, id \in JobIds, entry \in {"main", "process_job"} :
          /\ jpc = entry
          /\ web_db = [j \in JobIds |->
                         JobRow(IF entry = "process_job" /\ j = id
                                THEN "in_progress" ELSE "pending", input_json)]
          /\ job = IF entry = "process_job"
                   THEN Some([job_id |-> id, input_json |-> input_json])
                   ELSE None
    /\ backtest_params = NoParams
    /\ retry_count = 0
    /\ output_dict = None
    /\ calls = << >>

\* worker.main: job = await claim_next_pending_job()
ClaimNextPendingJob ==
    /\ jpc = "main"
    /\ IF environ.DATABASE_URL
       THEN \E j \in JobIds :
               /\ web_db[j].status = "pending"
               /\ web_db' = mark_job(web_db, j, "in_progress")
               /\ job' = Some([job_id |-> j, input_json |-> web_db[j].input_json])
               /\ jpc' = "claimed"
               /\ calls' = Append(calls, Call("claim_next_pending_job", "ok", j))
       ELSE /\ jpc' = "raised"
            /\ calls' = Append(calls, Call("claim_next_pending_job", "raise", None))
            /\ UNCHANGED <<web_db, job>>
    /\ UNCHANGED <<environ, stock_db, backtest_params, retry_count, output_dict>>
    /\ UNCHANGED <<backtest_vars, screen_vars, claim_vars>>

\* worker.main: await _process_one(job)
ProcessOne ==
    /\ jpc = "claimed"
    /\ \E run_ok \in BOOLEAN, files_ok \in BOOLEAN, completed_o \in DbOutcomes,
          failed_o \in DbOutcomes :
          LET resolved_input == resolve_backtest_input(job_payload, stock_db,
                                                      environ.ALLOW_FULL_UNIVERSE)
              ran == resolved_input # None
              c1 == IF ran
                    THEN Append(calls, Call("run_backtest", outcome(run_ok),
                                            Val(resolved_input)))
                    ELSE calls
              written == ran /\ run_ok /\ files_ok
              c2 == IF written
                    THEN Append(c1, Call("mark_job_completed",
                                         outcome(returns(completed_o)), job_id))
                    ELSE c1
              completed == written /\ returns(completed_o)
              db1 == IF written /\ applied(completed_o)
                     THEN mark_job(web_db, job_id, "completed") ELSE web_db
              c3 == IF completed THEN c2
                    ELSE Append(c2, Call("mark_job_failed", outcome(returns(failed_o)),
                                         job_id))
          IN  /\ calls' = c3
              /\ output_dict' = IF ran /\ run_ok THEN Some(CHOOSE o \in Outputs : TRUE)
                                ELSE None
              /\ web_db' = IF ~completed /\ applied(failed_o)
                           THEN mark_job(db1, job_id, "failed") ELSE db1
              /\ jpc' = IF completed \/ returns(failed_o) THEN "main" ELSE "raised"
    /\ UNCHANGED <<environ, stock_db, job, backtest_params, retry_count>>
    /\ UNCHANGED <<backtest_vars, screen_vars, claim_vars>>

\* the end of a step of process_job: the next position, or the handler
\* `except Exception` with its persist_failed_impl
Settle(r) ==
    \E failed_o \in DbOutcomes :
        /\ backtest_params' = r.params
        /\ retry_count' = r.retry
        /\ output_dict' = r.out
        /\ IF r.next = "except"
           THEN /\ calls' = Append(r.calls, Call("persist_failed_impl",
                                                 outcome(returns(failed_o)), job_id))
                /\ web_db' = IF applied(failed_o) THEN mark_job(r.db, job_id, "failed")
                             ELSE r.db
                /\ jpc' = IF returns(failed_o) THEN "done" ELSE "raised"
           ELSE /\ calls' = r.calls
                /\ web_db' = r.db
                /\ jpc' = r.next
        /\ UNCHANGED <<environ, stock_db, job>>
        /\ UNCHANGED <<backtest_vars, screen_vars, claim_vars>>

Step(cs, params, retry, out, next) ==
    [calls |-> cs, params |-> params, retry |-> retry, out |-> out, next |-> next,
     db |-> web_db]

\* process_job up to the loop: the key check, parse, merge, guardrails,
\* the symbols
ProcessJobStart ==
    /\ jpc = "process_job"
    /\ \E parsed_ \in {None} \cup {Some(p) : p \in ParsedRequests} :
          LET query == job_payload.query
              need_parse == query # None
              parse_raised == need_parse /\ parsed_ = None
              parsed == IF need_parse THEN parsed_ ELSE None
              c1 == IF need_parse
                    THEN Append(calls, Call("parse_request_agent",
                                            outcome(~parse_raised), parsed))
                    ELSE calls
              p1 == merge_backtest_params(job_payload, parsed)
              p2 == apply_param_guardrails(p1)
              p3 == maybe_apply_years_range_from_query(p2, query)
              target_corp_names == get_or_empty(p3.target_corp_names)
              resolving == get_or_empty(p3.target_symbols) = << >>
                           /\ (target_corp_names # << >> \/ query # None)
              resolved_symbols == resolve_symbols_impl(target_corp_names, query, stock_db)
              c2 == IF resolving
                    THEN Append(c1, Call("resolve_symbols_impl", "ok", resolved_symbols))
                    ELSE c1
              p4 == IF resolving /\ resolved_symbols # << >>
                    THEN [p3 EXCEPT !.target_symbols = Some(resolved_symbols)]
                    ELSE p3
              target_symbols == get_or_empty(p4.target_symbols)
          IN  IF ~environ.OPENAI_API_KEY
              THEN parsed_ = None /\ Settle(Step(calls, NoParams, 0, None, "except"))
              ELSE IF parse_raised
              THEN Settle(Step(c1, NoParams, 0, None, "except"))
              ELSE IF ~environ.ALLOW_FULL_UNIVERSE /\ target_symbols = << >>
              THEN Settle(Step(c2, p4, 0, None, "except"))
              ELSE Settle(Step(c2, p4, 0, None, "preflight"))

\* the same without `retry_count += 1`
Adjusted_uncounted(cs, adj_) ==
    IF adj_ = None
    THEN Step(Append(cs, Call("adjust_plan_agent", "raise", None)),
              backtest_params, retry_count, output_dict, "except")
    ELSE Step(Append(cs, Call("adjust_plan_agent", "ok", Val(adj_))),
              apply_param_guardrails(apply_adjustment(backtest_params, Val(adj_))),
              retry_count, output_dict, "preflight")

\* the adjust agent and what follows it: _apply_adjustment, the guardrails,
\* retry_count += 1, continue
Adjusted(cs, adj_) ==
    IF adj_ = None
    THEN Step(Append(cs, Call("adjust_plan_agent", "raise", None)),
              backtest_params, retry_count, output_dict, "except")
    ELSE Step(Append(cs, Call("adjust_plan_agent", "ok", Val(adj_))),
              apply_param_guardrails(apply_adjustment(backtest_params, Val(adj_))),
              retry_count + 1, output_dict, "preflight")

Raised(cs) == Step(cs, backtest_params, retry_count, output_dict, "except")

AdjustOutcomes == {None} \cup {Some(a) : a \in AdjustmentPlans}

\* 4-1) preflight
PreflightStep ==
    /\ jpc = "preflight"
    /\ \E adj_ \in AdjustOutcomes :
          LET ok == preflight_ok(backtest_params, stock_db)
              c1 == Append(calls, Call("preflight_data_check_impl",
                                       IF ok THEN "ok" ELSE "not_ok", backtest_params))
          IN  IF ok
              THEN adj_ = None
                   /\ Settle(Step(c1, backtest_params, retry_count, output_dict, "run"))
              ELSE IF retry_count >= environ.BACKTEST_AGENT_MAX_RETRIES
              THEN adj_ = None /\ Settle(Raised(c1))
              ELSE Settle(Adjusted(c1, adj_))

\* 4-2) run_backtest_impl and the summary of its output
RunStep ==
    /\ jpc = "run"
    /\ \E out_ \in {None} \cup {Some(o) : o \in Outputs} :
          LET bt == BacktestInput(backtest_params)
              c1 == Append(calls, Call("run_backtest", outcome(out_ # None), bt))
          IN  IF out_ = None THEN Settle(Raised(c1))
              ELSE Settle(Step(c1, backtest_params, retry_count, out_, "audit"))

\* the same with a failed audit handled like a request for a retry
audit_decision_lenient(last_audit, retry, budget) ==
    IF last_audit.score # "fail" /\ ~last_audit.needs_retry THEN "break"
    ELSE IF retry >= budget THEN "raise"
    ELSE "adjust"

\* what follows the audit: raise, break, or adjust and continue
audit_decision(last_audit, retry, budget) ==
    IF last_audit.score = "fail" THEN "raise"
    ELSE IF ~last_audit.needs_retry THEN "break"
    ELSE IF retry >= budget THEN "raise"
    ELSE "adjust"

\* 4-4) the audit agent and the decision on its result
AuditStep ==
    /\ jpc = "audit"
    /\ \E audit_ \in {None} \cup {Some(a) : a \in AuditResults}, adj_ \in AdjustOutcomes :
          LET last_audit == Val(audit_)
              c1 == Append(calls, Call("audit_result_agent", outcome(audit_ # None), audit_))
              decision == audit_decision(last_audit, retry_count,
                                         environ.BACKTEST_AGENT_MAX_RETRIES)
          IN  IF audit_ = None THEN adj_ = None /\ Settle(Raised(c1))
              ELSE IF decision = "adjust" THEN Settle(Adjusted(c1, adj_))
              ELSE IF decision = "break"
              THEN adj_ = None
                   /\ Settle(Step(c1, backtest_params, retry_count, output_dict, "finish"))
              ELSE adj_ = None /\ Settle(Raised(c1))

\* 5), 6) the artifacts, the report (best effort) and persist_completed_impl
FinishStep ==
    /\ jpc = "finish"
    /\ \E files_ok \in BOOLEAN, narrative_ \in {None} \cup {Some(n) : n \in Narratives},
          completed_o \in DbOutcomes :
          LET c1 == Append(calls, Call("build_artifacts_impl", outcome(files_ok), job_id))
              c2 == Append(c1, Call("report_agent", outcome(narrative_ # None), narrative_))
              analysis_md == IF narrative_ = None THEN None
                             ELSE Some(Val(narrative_).analysis_md)
              analysis_json == IF narrative_ = None THEN None
                               ELSE Some(analysis_json_dict(Val(narrative_).analysis_json))
              db1 == IF applied(completed_o) THEN mark_job(web_db, job_id, "completed")
                     ELSE web_db
              c3 == Append(c2, Call("persist_completed_impl", outcome(returns(completed_o)),
                                    [job_id |-> job_id,
                                     output_json |-> build_output_summary(Val(output_dict)),
                                     analysis_md |-> analysis_md,
                                     analysis_json |-> analysis_json]))
          IN  IF ~files_ok
              THEN narrative_ = None /\ completed_o = "raise" /\ Settle(Raised(c1))
              ELSE IF ~returns(completed_o) THEN Settle([Raised(c3) EXCEPT !.db = db1])
              ELSE Settle([Step(c3, backtest_params, retry_count, output_dict, "done")
                             EXCEPT !.db = db1])

JobNext ==
    \/ ClaimNextPendingJob
    \/ ProcessOne
    \/ ProcessJobStart
    \/ PreflightStep
    \/ RunStep
    \/ AuditStep
    \/ FinishStep

JobSpec == JobInit /\ [][JobNext]_vars

\* the jobs that give target_symbols or nothing at all
PlainJob ==
    \A j \in JobIds :
        \E ts \in {None, Some(<<"005930", "000660">>)} :
            web_db[j].input_json = [parameters |-> [NoParams EXCEPT !.target_symbols = ts],
                                    stock_symbol |-> None, query |-> None]

\* the same machine on those jobs with a worker that keeps running: main's
\* loop and process_job take their next step whenever they have one (every
\* await returns or raises)
JobFairInit == JobInit /\ PlainJob

JobFairSpec == JobFairInit /\ [][JobNext]_vars /\ WF_vars(JobNext)

(***************************************************************************)
(* web_db.claim_next_pending_job under several workers.  The statement     *)
(* runs in its own transaction (READ COMMITTED): it reads the pending rows *)
(* of its snapshot in created_at order, takes the first one whose row lock *)
(* is free and whose current version is still pending (FOR UPDATE SKIP     *)
(* LOCKED LIMIT 1), updates it and commits.                                *)
(***************************************************************************)
Workers == {"w1", "w2"}

\* the rows of the table in created_at order
QueueOrder == <<"job-1", "job-2", "job-3">>

Statuses == {"pending", "in_progress", "completed", "failed"}

\* the same, taking a row whatever its lock and its current version
lock_any(db, locks, j) == TRUE

\* FOR UPDATE SKIP LOCKED: the row is taken when no other transaction holds
\* its lock and its current version still satisfies status = 'pending'
lockable(db, locks, j) == locks[j] = None /\ db[j].status = "pending"

\* SELECT id ... WHERE status = 'pending' ORDER BY created_at ASC
pending_rows(db) == SelectSeq(QueueOrder, LAMBDA j : db[j].status = "pending")

Idle == [pos |-> "idle", snapshot |-> << >>, picked |-> None]

ClaimInit ==
    /\ BacktestIdle
    /\ ScreenIdle
    /\ environ = << >>
    /\ stock_db = << >>
    /\ \E st \in [Elems(QueueOrder) -> Statuses] :
          web_db = [j \in Elems(QueueOrder) |-> JobRow(st[j], NoParams)]
    /\ job = None
    /\ jpc = "idle"
    /\ backtest_params = << >>
    /\ retry_count = 0
    /\ output_dict = None
    /\ calls = << >>
    /\ row_lock = [j \in Elems(QueueOrder) |-> None]
    /\ conn = [w \in Workers |-> Idle]
    /\ returned = << >>

ClaimFrame == UNCHANGED <<backtest_vars, screen_vars, environ, stock_db, job, jpc,
                          backtest_params, retry_count, output_dict, calls>>

\* conn.fetchrow(...): the statement starts and takes its snapshot
StartClaim(w) ==
    /\ conn[w].pos = "idle"
    /\ conn' = [conn EXCEPT ![w] = [pos |-> "scan", snapshot |-> pending_rows(web_db),
                                    picked |-> None]]
    /\ UNCHANGED <<web_db, row_lock, returned>>
    /\ ClaimFrame

\* the scan of `picked`: the next row of the snapshot is locked or skipped;
\* without a row the statement returns nothing and main sleeps
ScanRow(w) ==
    /\ conn[w].pos = "scan"
    /\ IF conn[w].snapshot = << >>
       THEN /\ conn' = [conn EXCEPT ![w] = Idle]
            /\ UNCHANGED row_lock
       ELSE LET j == Head(conn[w].snapshot)
            IN  IF lockable(web_db, row_lock, j)
                THEN /\ row_lock' = [row_lock EXCEPT ![j] = Some(w)]
                     /\ conn' = [conn EXCEPT ![w].pos = "locked", ![w].picked = Some(j)]
                ELSE /\ conn' = [conn EXCEPT ![w].snapshot = Tail(@)]
                     /\ UNCHANGED row_lock
    /\ UNCHANGED <<web_db, returned>>
    /\ ClaimFrame

\* UPDATE ... SET status = 'in_progress' ... RETURNING, and the commit
UpdateReturning(w) ==
    /\ conn[w].pos = "locked"
    /\ LET j == Val(conn[w].picked)
       IN  /\ web_db' = mark_job(web_db, j, "in_progress")
           /\ row_lock' = [row_lock EXCEPT ![j] = None]
           /\ returned' = Append(returned, [worker |-> w, job_id |-> j])
    /\ conn' = [conn EXCEPT ![w].pos = "returned", ![w].snapshot = << >>]
    /\ ClaimFrame

\* _process_one ends the job it was given, and main claims again
ProcessClaimed(w) ==
    /\ conn[w].pos = "returned"
    /\ \E st \in {"completed", "failed"} :
          web_db' = mark_job(web_db, Val(conn[w].picked), st)
    /\ conn' = [conn EXCEPT ![w] = Idle]
    /\ UNCHANGED <<row_lock, returned>>
    /\ ClaimFrame

ClaimNext ==
    \E w \in Workers :
        \/ StartClaim(w)
        \/ ScanRow(w)
        \/ UpdateReturning(w)
        \/ ProcessClaimed(w)

ClaimSpec == ClaimInit /\ [][ClaimNext]_vars

(***************************************************************************)
(* Properties                                                              *)
(***************************************************************************)
LogIdx == 1..Len(trades_log)
OrdIdx == 1..Len(orders)
IdxOf(symbol) == CHOOSE i \in SymIdx : selected_symbols[i] = symbol
\* next() has run on the current bar
AfterNext == bar >= 1 /\ pc # "strategy"
\* the most recent disclosure of symbol i dated on or before d, if any
LatestDisclosure(i, d) ==
    LET before == UpTo(sentiment_data(i), d)
    IN  IF before = <<>> THEN None ELSE Some(before[Len(before)])
IndicatorAction(i, d) ==
    LET indicator_signal ==
            check_indicator_conditions(indicator_data[i], cfg.event_indicator_conditions, d)
    IN  IF indicator_signal.action = "raise" THEN "NEUTRAL" ELSE indicator_signal.action

\* C1: whenever check_indicator_conditions gives a non-NEUTRAL action for a
\* symbol on a day, a BUY logged for it that day needs the action BUY and a
\* signal-driven SELL logged for it that day needs the action SELL.
C1_IndicatorActionDecides ==
    \A k \in LogIdx :
        LET r == trades_log[k]
            ia == IndicatorAction(IdxOf(r.symbol), r.date)
        IN  ia # "NEUTRAL" =>
              /\ (r.action = "BUY" => ia = "BUY")
              /\ (r.action = "SELL" /\ r.reason.tier # "rebalance" => ia = "SELL")

\* C2: every SELL record with the rebalance reason precedes every BUY record
\* of the same day in the trade log.
C2_RebalanceSellsBeforeBuys ==
    \A j \in LogIdx, k \in LogIdx :
        /\ trades_log[j].action = "SELL"
        /\ trades_log[j].reason.tier = "rebalance"
        /\ trades_log[k].action = "BUY"
        /\ trades_log[j].date = trades_log[k].date
        => j < k

\* a day on which a rebalance sold a held symbol and bought one
C2_Witness ==
    \E j \in LogIdx, k \in LogIdx :
        /\ trades_log[j].action = "SELL"
        /\ trades_log[j].reason.tier = "rebalance"
        /\ trades_log[k].action = "BUY"
        /\ trades_log[j].date = trades_log[k].date

\* C3: at a rebalance every symbol that holds a position is issued a close
\* for its full size.
C3_RebalanceClosesEveryPosition ==
    (AfterNext /\ rebalance_date = Some(date)) =>
        \A i \in SymIdx :
            position[i] # 0 =>
                \E k \in OrdIdx :
                    /\ orders[k].bar = bar
                    /\ orders[k].sym = i
                    /\ orders[k].origin = "rebalance_close"
                    /\ orders[k].size = -position[i]

\* C4: a BUY decided by the bare disclosure code is for a symbol whose own
\* most recent disclosure on or before that day has code 1.
C4_BareCodeBuyNeedsOwnDisclosure ==
    \A k \in LogIdx :
        LET r == trades_log[k]
            latest == LatestDisclosure(IdxOf(r.symbol), r.date)
        IN  r.action = "BUY" /\ r.reason.tier = "disclosure" =>
                latest # None /\ Val(latest).disclosure = 1

\* the rule that governs a disclosure: the first event rule whose name
\* occurs in it, else the rule of its category
GoverningRule(latest) ==
    LET k == first_event_match(cfg.event_signals, latest, 1)
    IN  IF k # 0 THEN Some(Rule(cfg.event_signals[k].action,
                                cfg.event_signals[k].delay_days))
        ELSE IF latest.category \in DOMAIN cfg.category_signals
        THEN Some(cfg.category_signals[latest.category])
        ELSE None

\* C5: no BUY and no signal-driven SELL is logged on account of a disclosure
\* dated D earlier than D + delay_days of the rule that governs it.
C5_NoTradeBeforeDelay ==
    \A k \in LogIdx :
        LET r == trades_log[k]
            latest == LatestDisclosure(IdxOf(r.symbol), r.date)
        IN  /\ r.reason.tier \in {"category", "disclosure"}
            /\ latest # None
            /\ GoverningRule(Val(latest)) # None
            => r.date >= Val(latest).date + Val(GoverningRule(Val(latest))).delay_days

\* C6: when an event rule matches the latest disclosure, the action of
\* generate_category_signals is what that event rule alone gives; the
\* category rule is not consulted.
C6_EventRuleShadowsCategory ==
    pc = "strategy" =>
        \A i \in SymIdx :
            LET latest == LatestDisclosure(i, date)
                k == first_event_match(cfg.event_signals, Val(latest), 1)
                rule == cfg.event_signals[k]
            IN  latest # None /\ k # 0 =>
                    generate_category_signals(sentiment_data(i), cfg.category_signals,
                                              cfg.event_signals, date).action
                    = IF /\ Val(latest).date + rule.delay_days <= date
                         /\ rule.action \in {"BUY", "SELL"}
                      THEN rule.action ELSE "NEUTRAL"

\* C7: next() rebalances on a day exactly when it is the first simulated day
\* or the last rebalance is at least rebalancing_period calendar days back;
\* after next() the last rebalance is less than rebalancing_period days back.
C7_RebalanceCadence ==
    AfterNext =>
        LET period == rebalancing_days(cfg.rebalancing_period)
        IN  /\ (rebalance_date = Some(date))
               <=> (prev_rebalance = None \/ date - Val(prev_rebalance) >= period)
            /\ rebalance_date # None
            /\ date - Val(rebalance_date) < period
            /\ (rebalance_date = Some(date) /\ prev_rebalance # None
                  => date - Val(prev_rebalance) >= period)

\* a second rebalance of a weekly run, and a day of it without one
C7_Witness ==
    /\ AfterNext
    /\ cfg.rebalancing_period = "weekly"
    /\ rebalance_date = Some(date)
    /\ prev_rebalance # None
    /\ date - Val(prev_rebalance) >= rebalancing_days(cfg.rebalancing_period)

OrdersOf(i, b, exectype) ==
    {k \in OrdIdx : orders[k].sym = i /\ orders[k].bar = b /\ orders[k].exectype = exectype}

SoldBySignal(i) ==
    \E k \in OrdIdx :
        orders[k].sym = i /\ orders[k].bar = bar /\ orders[k].origin = "signal_close"

\* C8: after next(), every symbol with an open position that no signal sold
\* that day has none of its older orders pending and exactly one stop and
\* one take-profit order of that day, each for the full position size.
C8_HeldPositionsHaveFreshRiskOrders ==
    AfterNext =>
        \A i \in SymIdx :
            position[i] # 0 /\ ~SoldBySignal(i) =>
                /\ \A k \in OrdIdx :
                      orders[k].sym = i /\ orders[k].bar < bar
                      => orders[k].status \notin {"Submitted", "Accepted"}
                /\ Cardinality(OrdersOf(i, bar, "Stop")) = 1
                /\ Cardinality(OrdersOf(i, bar, "Limit")) = 1
                /\ \A k \in OrdersOf(i, bar, "Stop") \cup OrdersOf(i, bar, "Limit") :
                      orders[k].size = -position[i]

\* C9: when the tiers yield SELL for a held symbol, manage_position issues
\* one close for the full position, logs one SELL record with the winning
\* tier's reason on that day, and places no stop or take-profit order for the
\* symbol on that day; once the broker has executed the close, the symbol's
\* position is closed.
C9_SignalSellClosesPosition ==
    /\ AfterNext =>
          \A i \in SymIdx :
              position[i] # 0 /\ sell_decision(i, date).should_sell =>
                  /\ Cardinality({k \in OrdersOf(i, bar, "Market") :
                                    /\ orders[k].origin = "signal_close"
                                    /\ orders[k].size = -position[i]}) = 1
                  /\ Cardinality({k \in LogIdx :
                                    /\ trades_log[k].date = date
                                    /\ trades_log[k].symbol = selected_symbols[i]
                                    /\ trades_log[k].action = "SELL"
                                    /\ trades_log[k].reason.tier # "rebalance"
                                    /\ trades_log[k].reason
                                         = sell_decision(i, date).reason}) = 1
                  /\ OrdersOf(i, bar, "Stop") = {}
                  /\ OrdersOf(i, bar, "Limit") = {}
    /\ pc = "strategy" =>
          \A k \in OrdIdx :
              orders[k].origin = "signal_close" /\ orders[k].bar = bar - 1
              => position[orders[k].sym] = 0

\* C10: every order the broker executed has one trade-log record with the
\* executed size, and every record belongs to an order that was executed
\* with the recorded size once the broker has worked on it.
C10_OneRecordPerFill ==
    /\ \A k \in OrdIdx :
          orders[k].executed # 0 =>
              /\ orders[k].rec \in LogIdx
              /\ Abs(trades_log[orders[k].rec].size) = Abs(orders[k].executed)
    /\ \A r \in LogIdx :
          \E k \in OrdIdx :
              /\ orders[k].rec = r
              /\ (orders[k].bar < bar =>
                    Abs(orders[k].executed) = Abs(trades_log[r].size))

\* floor(a / b) for b > 0
FloorDiv(a, b) == IF a >= 0 THEN a \div b ELSE -(((-a) + b - 1) \div b)

\* cash_per_slot / close for symbol i, floored, on the current bar
SlotSize(i) ==
    FloorDiv(cash, Min(Len(selected_symbols), cfg.max_positions) * Bar(i).close)

BuyOrders(i, b) ==
    {k \in OrdIdx : orders[k].origin = "buy" /\ orders[k].sym = i /\ orders[k].bar = b}

\* C11: every BUY issued at a rebalance has the size
\* floor((cash / min(number of symbols, max_positions)) / close), and a
\* symbol for which that size is 0 or less gets no order and no BUY record.
C11_BuySizeIsFlooredSlot ==
    \A i \in SymIdx :
        /\ \A k \in BuyOrders(i, bar) :
              /\ orders[k].size = SlotSize(i)
              /\ orders[k].size > 0
              /\ orders[k].rec \in LogIdx
              /\ trades_log[orders[k].rec].size = SlotSize(i)
        /\ SlotSize(i) <= 0 =>
              /\ BuyOrders(i, bar) = {}
              /\ \A r \in LogIdx :
                    ~(/\ trades_log[r].date = date
                      /\ trades_log[r].symbol = selected_symbols[i]
                      /\ trades_log[r].action = "BUY")

\* a rebalance that buys with a slot that is not a multiple of the close, in
\* a run with fewer symbols than max_positions
C11_Witness ==
    /\ AfterNext
    /\ cfg.max_positions > Len(selected_symbols)
    /\ \E i \in SymIdx : \E k \in BuyOrders(i, bar) :
          orders[k].size * Len(selected_symbols) * Bar(i).close < cash

\* C12: at most max_positions symbols have an open position, and one
\* rebalance issues at most max_positions BUY orders.
C12_AtMostMaxPositions ==
    /\ Cardinality({i \in SymIdx : position[i] # 0}) <= cfg.max_positions
    /\ \A b \in 1..bar :
          Cardinality({k \in OrdIdx : orders[k].origin = "buy" /\ orders[k].bar = b})
            <= cfg.max_positions

\* max_positions = 1 holds, while the second symbol's disclosure would buy it too
C12_Witness ==
    /\ cfg.max_positions = 1
    /\ position[1] # 0
    /\ LatestDisclosure(2, date) # None
    /\ Val(LatestDisclosure(2, date)).disclosure = 1

AfterScreening == stage \in {"screened", "cut", "loaded"}

Scored == input_params.sort_by \in ScoredSortKeys

\* every symbol the run has selected so far, at any stage
SelectedSoFar ==
    Elems(universe_symbols) \cup Elems(screened) \cup Elems(sorted_symbols)
    \cup Elems(cut_symbols) \cup Elems(valid_symbols)

\* C13: when target_symbols is given and non-empty, every symbol of the
\* candidate list at every stage (universe, screen, fallback, sort, cut) and
\* every symbol that reaches the simulation is a member of target_symbols.
C13_SelectionWithinTargets ==
    stage # "idle" /\ input_params.target_symbols # << >>
    => SelectedSoFar \subseteq Elems(input_params.target_symbols)

\* a run with targets whose screen came out empty, so the fallback was taken,
\* while the market list holds other symbols
C13_Witness ==
    /\ stage = "loaded"
    /\ input_params.target_symbols # << >>
    /\ Scored
    /\ input_params.filter_type # None
    /\ screened = << >>
    /\ valid_symbols # << >>
    /\ ~(Elems(database.market) \subseteq Elems(input_params.target_symbols))

\* C14: when target_corp_names is given and target_symbols is not, the
\* universe holds only symbols resolved from those names, also when no name
\* resolves.
C14_UniverseFromCorpNamesOnly ==
    /\ stage \notin {"idle", "start"}
    /\ input_params.target_symbols = << >>
    /\ input_params.target_corp_names # << >>
    => Elems(universe_symbols)
         \subseteq {database.corp[c] :
                      c \in Elems(input_params.target_corp_names) \cap DOMAIN database.corp}

\* C15: with a top or bottom filter, percent = 0 gives an empty candidate
\* list for the run, and percent = 100 gives the full scored set in sorted
\* order before the cut to max_portfolio_size.
C15_PercentZeroAndHundred ==
    AfterScreening /\ Scored /\ input_params.filter_type \in {Some("top"), Some("bottom")}
    => /\ input_params.filter_percent = Some(0)
            => sorted_symbols = << >> /\ valid_symbols = << >>
       /\ input_params.filter_percent = Some(100)
            => sorted_symbols = sort(symbol_to_score.keys, ScoreFn(symbol_to_score),
                                     ~input_params.sort_ascending)

\* ceil(num / den) for num >= 0, den > 0
Ceil(num, den) == (num + den - 1) \div den

\* C16: a top or bottom filter with 0 < percent <= 100 over n scored symbols
\* keeps max(1, ceil(n * percent / 100)) symbols.
C16_KeptCountIsCeil ==
    /\ AfterScreening /\ Scored
    /\ input_params.filter_type \in {Some("top"), Some("bottom")}
    /\ input_params.filter_percent # None
    /\ Val(input_params.filter_percent) > 0
    /\ Val(input_params.filter_percent) <= 100
    => Len(screened)
         = Max(1, Ceil(Len(symbol_to_score.keys) * Val(input_params.filter_percent), 100))

\* C17: with filter_type = "value" and a filter_value, every symbol of the
\* candidate list, and every symbol that reaches the simulation, has a score
\* on the kept side of the cutoff.
C17_ValueCutoffKept ==
    /\ AfterScreening /\ Scored
    /\ input_params.filter_type = Some("value")
    /\ input_params.filter_value # None
    => \A sym \in Elems(sorted_symbols) \cup Elems(cut_symbols) \cup Elems(valid_symbols) :
          IF input_params.sort_ascending
          THEN ScoreFn(symbol_to_score)[sym] <= Val(input_params.filter_value)
          ELSE ScoreFn(symbol_to_score)[sym] >= Val(input_params.filter_value)

\* a list ordered by score in the direction of sort_ascending
Ordered(list, score, ascending) ==
    \A i \in 1..(Len(list) - 1) :
        IF ascending THEN score[list[i]] <= score[list[i + 1]]
        ELSE score[list[i]] >= score[list[i + 1]]

\* C18: sorting the screened list again by the same score and direction
\* leaves it as it is, so a non-empty screened list is the selected list in
\* the same order with the same symbols; the selected list is ordered by
\* score in the direction of sort_ascending.
C18_ResortKeepsScreenedOrder ==
    AfterScreening /\ Scored
    => /\ sort(screened, ScoreFn(symbol_to_score), ~input_params.sort_ascending)
            = screened
       /\ screened # << >> => sorted_symbols = screened
       /\ Ordered(sorted_symbols, ScoreFn(symbol_to_score), input_params.sort_ascending)

\* a screened list in descending order that holds two symbols of equal score
C18_Witness ==
    /\ AfterScreening /\ Scored
    /\ ~input_params.sort_ascending
    /\ input_params.filter_type # None
    /\ Len(screened) >= 3
    /\ \E i \in 1..(Len(screened) - 1) :
          /\ ScoreFn(symbol_to_score)[screened[i]]
               = ScoreFn(symbol_to_score)[screened[i + 1]]
          /\ ScoreFn(symbol_to_score)[screened[1]]
               # ScoreFn(symbol_to_score)[screened[Len(screened)]]

\* run_backtest: total_trades = trade_analyzer.total.closed, the number of
\* trades the engine has closed
total_trades == Cardinality({k \in OrdIdx : orders[k].closes})

\* run_backtest: win_rate for a number of won trades; it keeps its default 0
\* when no trade was closed
win_rate(won) == IF total_trades # 0 THEN (won * 100) \div total_trades ELSE 0

\* broker.getvalue(): cash plus the positions at the close of the bar
RECURSIVE PositionsValue(_)
PositionsValue(i) ==
    IF i > Len(selected_symbols) THEN 0
    ELSE position[i] * Bar(i).close + PositionsValue(i + 1)

portfolio_value == cash + PositionsValue(1)

NoRecords == \A i \in SymIdx : table[i] = << >>

FirstDate == Gap(calendar, 1)

\* the BUY records of the first simulated day
FirstDayBuys ==
    {r \in LogIdx : trades_log[r].action = "BUY" /\ trades_log[r].date = FirstDate}

\* one symbol, no rules and no conditions, one disclosure of code 1 dated on
\* or before the first simulated day
SingleDisclosureRun ==
    /\ Len(selected_symbols) = 1
    /\ cfg.use_dart
    /\ DOMAIN cfg.category_signals = {}
    /\ cfg.event_signals = << >>
    /\ cfg.event_indicator_conditions = << >>
    /\ Len(sentiment_data(1)) = 1
    /\ sentiment_data(1)[1].disclosure = 1
    /\ sentiment_data(1)[1].date <= FirstDate

\* C20: in such a run exactly one BUY record is logged on the first
\* rebalance date, its reason names the bare disclosure-code tier and its
\* size is floor(available cash / close) of that date.
C20_SingleDisclosureSingleBuy ==
    SingleDisclosureRun /\ (bar > 1 \/ (bar = 1 /\ pc # "strategy"))
    => /\ Cardinality(FirstDayBuys) = 1
       /\ \A r \in FirstDayBuys :
             /\ trades_log[r].reason.tier = "disclosure"
             /\ trades_log[r].symbol = selected_symbols[1]
             /\ trades_log[r].size
                  = FloorDiv(cfg.initial_cash, SeriesBar(series[1], 1).close)

\* such a run after its first day, the disclosure being dated before that day
C20_Witness ==
    /\ SingleDisclosureRun
    /\ bar = 1 /\ pc # "strategy"
    /\ sentiment_data(1)[1].date < FirstDate
    /\ cfg.max_positions > 1

\* the bar on which order k was created
BarOfOrder(k) == SeriesBar(series[orders[k].sym], orders[k].bar)

RiskOrders == {k \in OrdIdx : orders[k].origin \in {"stop", "take_profit"}}

\* C21: whenever manage_position places risk orders for a held position, the
\* stop order is priced at close - 2 * ATR and the take-profit order at
\* close + 3 * ATR with the ATR floored at 0.1, and
\* stop price < close < take-profit price.
C21_StopBelowCloseBelowTake ==
    \A k \in RiskOrders :
        LET close == BarOfOrder(k).close
            atr == IF BarOfOrder(k).atr > 1 THEN BarOfOrder(k).atr ELSE 1
        IN  IF orders[k].origin = "stop"
            THEN /\ orders[k].price = close - 2 * atr
                 /\ orders[k].price < close
                 /\ k + 1 \in RiskOrders
                 /\ orders[k + 1].origin = "take_profit"
                 /\ orders[k + 1].sym = orders[k].sym
                 /\ orders[k + 1].bar = orders[k].bar
            ELSE /\ orders[k].price = close + 3 * atr
                 /\ close < orders[k].price
                 /\ k - 1 \in RiskOrders
                 /\ orders[k - 1].origin = "stop"

\* risk orders placed on a bar whose ATR is below the floor and on a bar whose
\* ATR is above it
C21_Witness ==
    /\ \E k \in RiskOrders : BarOfOrder(k).atr < AtrFloor
    /\ \E k \in RiskOrders : BarOfOrder(k).atr > AtrFloor

CalendarBar(b) == MinPeriod - 1 + b

\* the bars of the price calendar that next() has processed so far
processed_bars == {CalendarBar(b) : b \in 1..(IF pc = "strategy" THEN bar - 1 ELSE bar)}

\* C23: next() processes every trading day of the price calendar once, in
\* ascending order starting with the first day: when it has run on a day it
\* has run on every day of the calendar up to that day; and the run ends
\* after the last day only, whatever the cash and the losses.
C23_EveryTradingDayProcessed ==
    /\ AfterNext => processed_bars = 1..CalendarBar(bar)
    /\ pc = "done" => bar = MaxBar

\* run_backtest is past its loading stage or has returned
PastLoading == stage \in {"loaded", "returned", "raised"}

\* no symbol of the candidate list has price data
NoPriceData == \A sym \in Elems(cut_symbols) : sym \notin database.priced

\* C24: when the resolved universe is empty, or no candidate symbol has any
\* price data, run_backtest raises nothing and returns a default
\* BacktestOutput: every metric 0, no trades, an empty report.
C24_EmptyRunReturnsDefault ==
    /\ stage # "raised"
    /\ (stage \notin {"idle", "start"} /\ universe_symbols = << >>)
       \/ (PastLoading /\ NoPriceData)
       => /\ stage = "returned"
          /\ output # None
          /\ \A f \in {"cumulative_return", "total_return", "annualized_return", "mdd",
                        "sharpe_ratio", "win_rate", "total_trades", "total_profit",
                        "total_loss"} : Val(output)[f] = 0
          /\ Val(output).trades = << >>
          /\ Val(output).report = ""

\* a run whose universe and candidate list are not empty and whose
\* candidates all lack price data
C24_Witness ==
    /\ stage = "returned"
    /\ universe_symbols # << >>
    /\ cut_symbols # << >>
    /\ NoPriceData

\* C25: under every scoring criterion a failure while scoring one symbol
\* gives it the score 0.0 and keeps it in the scored set, the other symbols
\* are scored as without the failure, and the screening completes.
C25_ScoringFailureIsZero ==
    /\ stage # "raised"
    /\ stage \notin {"idle", "start", "universe", "returned"} /\ Scored
       => /\ Elems(symbol_to_score.keys) = Elems(universe_symbols)
          /\ \A sym \in Elems(universe_symbols) :
                symbol_to_score.score[sym]
                  = IF input_params.sort_by = "fundamental" THEN 0
                    ELSE IF sym \in database.failing THEN 0
                    ELSE database.score[sym]

\* a screening in which the scoring of the first symbol failed and a later
\* symbol was scored with a score other than 0
C25_Witness ==
    /\ stage = "screened" /\ Scored
    /\ input_params.sort_by = "sentiment_score"
    /\ Len(universe_symbols) >= 2
    /\ universe_symbols[1] \in database.failing
    /\ \E k \in 2..Len(universe_symbols) :
          /\ universe_symbols[k] \notin database.failing
          /\ symbol_to_score.score[universe_symbols[k]] # 0

\* the evaluation of tier 1 for symbol i on date d is left by an exception
IndicatorRaises(i, d) ==
    /\ cfg.use_dart /\ cfg.event_indicator_conditions # << >> /\ indicator_data[i] # << >>
    /\ check_indicator_conditions(indicator_data[i], cfg.event_indicator_conditions,
                                  d).action = "raise"

\* C26: when the evaluation of a signal tier raises for a symbol on a day,
\* the symbol is NEUTRAL on that day: no BUY is logged for it at the
\* rebalance and no signal-driven SELL in position management; the loop
\* goes on with the next symbol and the next day.
C26_TierErrorIsNeutral ==
    /\ \A k \in LogIdx :
          LET r == trades_log[k]
          IN  IndicatorRaises(IdxOf(r.symbol), r.date)
              => /\ r.action # "BUY"
                 /\ ~(r.action = "SELL" /\ r.reason.tier # "rebalance")
    /\ pc = "done" => bar = MaxBar

\* no condition names a (report_type, idc_nm) pair of a row dated <= d
NoConditionMatches(df, conds, d) ==
    \A k \in 1..Len(conds) : \A j \in 1..Len(UpTo(df, d)) :
        ~(/\ UpTo(df, d)[j].report_type = conds[k].report_type
          /\ UpTo(df, d)[j].idc_nm = conds[k].idc_nm)

\* the latest disclosure dated <= d matches no event rule and no category rule
NoRuleMatches(df, d) ==
    LET latest == UpTo(df, d)[Len(UpTo(df, d))]
    IN  /\ first_event_match(cfg.event_signals, latest, 1) = 0
        /\ latest.category \notin DOMAIN cfg.category_signals

\* C27: check_indicator_conditions and generate_category_signals raise
\* nothing and return NEUTRAL with empty provenance (report_type and idc_nm;
\* categories and event_type) whenever the history is empty, has no record
\* dated on or before the as-of date, or matches no configured rule.
C27_NoMatchIsNeutralAndEmpty ==
    pc = "strategy" =>
        \A i \in SymIdx :
            /\ (\/ indicator_data[i] = << >>
                \/ UpTo(indicator_data[i], date) = << >>
                \/ NoConditionMatches(indicator_data[i],
                                      cfg.event_indicator_conditions, date))
               => LET r == check_indicator_conditions(indicator_data[i],
                                cfg.event_indicator_conditions, date)
                  IN  r.action = "NEUTRAL" /\ r.report_type = << >> /\ r.idc_nm = ""
            /\ (\/ sentiment_data(i) = << >>
                \/ UpTo(sentiment_data(i), date) = << >>
                \/ NoRuleMatches(sentiment_data(i), date))
               => LET r == generate_category_signals(sentiment_data(i),
                                cfg.category_signals, cfg.event_signals, date)
                  IN  r.action = "NEUTRAL" /\ r.categories = << >> /\ r.event_type = << >>


(***************************************************************************)
(* Properties of the job pipeline                                          *)
(***************************************************************************)
\* the configurations handed to run_backtest, by either caller
RunBacktestInputs == {calls[i].arg : i \in CallsTo("run_backtest")}

\* C28: every configuration that _process_one (through _resolve_backtest_input)
\* or process_job (through the guardrails, after any adjustments) hands to
\* run_backtest has max_positions <= max_portfolio_size.
C28_PositionsWithinPortfolioSize ==
    \A bt \in RunBacktestInputs :
        (bt.max_positions # NotInt /\ bt.max_portfolio_size # NotInt)
            => bt.max_positions <= bt.max_portfolio_size


\* the request parsed, every preflight was ok and every audit passed with
\* needs_retry false
HappyPath ==
    /\ \A i \in CallsTo("parse_request_agent") : calls[i].result = "ok"
    /\ \A i \in CallsTo("preflight_data_check_impl") : calls[i].result = "ok"
    /\ CallsTo("audit_result_agent") # {}
    /\ \A i \in CallsTo("audit_result_agent") :
          /\ calls[i].result = "ok"
          /\ Val(calls[i].arg).score = "pass"
          /\ ~Val(calls[i].arg).needs_retry

\* the artifacts were written, the report agent answered and the completed
\* write returned
NothingRaisedAfterAudit ==
    \A i \in CallsTo("build_artifacts_impl") \cup CallsTo("report_agent")
              \cup CallsTo("persist_completed_impl") : calls[i].result = "ok"

\* d holds, for every non-blank stripped key of items, the value of the last
\* item with that key, and nothing else
IsDictOf(d, items) ==
    /\ \A i, j \in 1..Len(d) : d[i][1] = d[j][1] => i = j
    /\ \A i \in 1..Len(d) :
          /\ d[i][1] # ""
          /\ \E k \in 1..Len(items) :
                /\ strip(items[k].key) = d[i][1]
                /\ items[k].value = d[i][2]
                /\ \A l \in (k + 1)..Len(items) : strip(items[l].key) # d[i][1]
    /\ \A k \in 1..Len(items) :
          strip(items[k].key) # "" => \E i \in 1..Len(d) : d[i][1] = strip(items[k].key)

\* one persist_completed_impl call, with the job's id, the summary of the
\* output, the report's analysis_md and the report's analysis_json as a dict
CompletedOnceWithReport ==
    /\ Cardinality(CallsTo("persist_completed_impl")) = 1
    /\ Cardinality(CallsTo("report_agent")) = 1
    /\ \A i \in CallsTo("persist_completed_impl"), r \in CallsTo("report_agent") :
          LET a == calls[i].arg
              narrative == calls[r].arg
          IN  /\ a.job_id = Val(job).job_id
              /\ a.output_json = [total_return |-> Val(output_dict).total_return,
                                  total_trades |-> Val(output_dict).total_trades]
              /\ narrative # None
              /\ a.analysis_md = Some(Val(narrative).analysis_md)
              /\ a.analysis_json # None
              /\ IsDictOf(Val(a.analysis_json), Val(narrative).analysis_json)

C30_MainFailsFastWithoutKey ==
    ~environ.OPENAI_API_KEY =>
        /\ \A i \in CallsTo("claim_next_pending_job") : calls[i].result = "raise"
        /\ CallsTo("run_backtest") = {}
        /\ CallsTo("mark_job_completed") \cup CallsTo("mark_job_failed") = {}

\* C31: under concurrent workers each job is returned by
\* claim_next_pending_job at most once, and the step that returns a job is
\* the step that moves it from pending to in_progress, so a job that is not
\* pending is never returned.
ReturnsOf(log, j) == {i \in 1..Len(log) : log[i].job_id = j}

ReturnedAtMostOnce == \A j \in Elems(QueueOrder) : Cardinality(ReturnsOf(returned, j)) <= 1

ReturnedFromPending ==
    \A j \in Elems(QueueOrder) :
        ReturnsOf(returned', j) # ReturnsOf(returned, j)
            => web_db[j].status = "pending" /\ web_db'[j].status = "in_progress"

C31_EachPendingJobClaimedOnce == []ReturnedAtMostOnce /\ [][ReturnedFromPending]_vars

\* a job has been returned to one worker while another worker's statement,
\* started before that commit, still has the job first in its snapshot
C31_Witness ==
    \E i \in 1..Len(returned), w \in Workers :
        /\ w # returned[i].worker
        /\ conn[w].pos = "scan"
        /\ conn[w].snapshot # << >>
        /\ Head(conn[w].snapshot) = returned[i].job_id

\* C32: a job that is in_progress (claimed by a worker) eventually has
\* status completed or failed.
Terminal == {"completed", "failed"}

C32_ClaimedJobEndsTerminal ==
    \A j \in JobIds : (web_db[j].status = "in_progress") ~> (web_db[j].status \in Terminal)

\* C33: the status of a job only moves pending -> in_progress -> completed
\* or failed: a terminal status is never written over, and a job gets at
\* most one terminal write.
AllowedMoves ==
    {<<"pending", "in_progress">>, <<"in_progress", "completed">>,
     <<"in_progress", "failed">>}

C33_StatusMovesForwardOnce ==
    \A j \in DOMAIN web_db :
        \A i \in 1..(Len(web_db[j].history) - 1) :
            <<web_db[j].history[i], web_db[j].history[i + 1]>> \in AllowedMoves

\* C34: process_job invokes the adjust agent at most
\* BACKTEST_AGENT_MAX_RETRIES times, preflight and audit retries counted
\* together, and runs the backtest at most that many times plus one; the
\* preflight/run/audit loop always ends, at its `break` (the way to
\* completed) or with an exception (the way to failed).
max_retries == environ.BACKTEST_AGENT_MAX_RETRIES

InLoop == jpc \in {"preflight", "run", "audit"}

LoopEnded == jpc = "finish" \/ CallsTo("persist_failed_impl") # {}

RetriesWithinBudget ==
    /\ Cardinality(CallsTo("adjust_plan_agent")) <= max_retries
    /\ Cardinality(CallsTo("run_backtest")) <= max_retries + 1

C34_RetryLoopBoundedAndEnds == []RetriesWithinBudget /\ (InLoop ~> LoopEnded)

\* the budget of one retry was used for a failed preflight, the audit of the
\* run that followed asked for another retry, and the loop has ended
C34_Witness ==
    /\ max_retries = 1
    /\ Cardinality(CallsTo("adjust_plan_agent")) = 1
    /\ \E i \in CallsTo("preflight_data_check_impl"), k \in CallsTo("audit_result_agent") :
          /\ calls[i].result = "not_ok"
          /\ calls[k].result = "ok"
          /\ Val(calls[k].arg).needs_retry
    /\ LoopEnded

\* C35: an audit with score fail is followed at once by the failed write
\* (persist_failed_impl) and by nothing else: no adjustment, no artifact
\* and no persist_completed_impl, whatever the retry budget; artifacts are
\* written only right after an audit that passed the loop (score not fail,
\* needs_retry false).
AuditFailed(i) ==
    /\ calls[i].fn = "audit_result_agent"
    /\ calls[i].result = "ok"
    /\ Val(calls[i].arg).score = "fail"

AuditPassed(i) ==
    /\ calls[i].fn = "audit_result_agent"
    /\ calls[i].result = "ok"
    /\ Val(calls[i].arg).score # "fail"
    /\ ~Val(calls[i].arg).needs_retry

C35_AuditFailFailsAtOnce ==
    /\ \A i \in 1..Len(calls) :
          AuditFailed(i) =>
              /\ Len(calls) = i + 1
              /\ calls[i + 1].fn = "persist_failed_impl"
              /\ calls[i + 1].arg = job_id
              /\ CallsTo("build_artifacts_impl") = {}
              /\ CallsTo("persist_completed_impl") = {}
              /\ web_db[job_id].status \in {"failed", "in_progress"}
              /\ calls[i + 1].result = "ok" => web_db[job_id].status = "failed"
    /\ \A k \in CallsTo("build_artifacts_impl") : k > 1 /\ AuditPassed(k - 1)

\* the audit of the first run has failed while a retry was left
C35_Witness ==
    /\ max_retries = 1
    /\ retry_count = 0
    /\ \E i \in 1..Len(calls) : AuditFailed(i)

\* C36: while ALLOW_FULL_UNIVERSE is off, run_backtest is never called with
\* an empty target_symbols, neither by _process_one nor by process_job after
\* adjustments that drop symbols: a parameter set without target symbols
\* fails its preflight and is followed by an adjustment or by the failure of
\* the job.
NoTargets(i) == get_or_empty(calls[i].arg.target_symbols) = << >>

C36_NeverRunsWithoutTargets ==
    ~environ.ALLOW_FULL_UNIVERSE =>
        /\ \A bt \in RunBacktestInputs : bt.target_symbols # << >>
        /\ \A i \in CallsTo("preflight_data_check_impl") :
              NoTargets(i) =>
                  /\ calls[i].result = "not_ok"
                  /\ i < Len(calls)
                  /\ calls[i + 1].fn \in {"adjust_plan_agent", "persist_failed_impl"}

\* an adjustment has dropped every symbol of a job that had run once, and
\* the job has failed on the preflight that followed
C36_Witness ==
    /\ ~environ.ALLOW_FULL_UNIVERSE
    /\ RunBacktestInputs # {}
    /\ \E i \in CallsTo("preflight_data_check_impl") :
          /\ NoTargets(i)
          /\ i > 1
          /\ calls[i - 1].fn = "adjust_plan_agent"
          /\ i < Len(calls)
          /\ calls[i + 1].fn = "persist_failed_impl"

\* C37: every parameter set process_job hands to preflight_data_check_impl
\* or run_backtest_impl has max_positions in 1..20 and max_portfolio_size in
\* 1..50 when present, and start_date <= end_date when both are present.
WithinGuardrails(params) ==
    /\ params.max_positions # None => Val(params.max_positions) \in 1..PositionsCap
    /\ params.max_portfolio_size # None => Val(params.max_portfolio_size) \in 1..PortfolioCap
    /\ (params.start_date # None /\ params.end_date # None)
          => Val(params.start_date) <= Val(params.end_date)

C37_ParametersWithinGuardrails ==
    /\ \A i \in CallsTo("preflight_data_check_impl") : WithinGuardrails(calls[i].arg)
    /\ jpc = "run" => WithinGuardrails(backtest_params)

\* C38: the position of every symbol is never negative: no sequence of
\* rebalance closes, signal-driven closes and stop / take-profit orders
\* sells more shares than are held.
C38_PositionNeverNegative == \A i \in SymIdx : position[i] >= 0

\* C39: what is decided up to day d depends only on records dated on or
\* before d.  A run in which every record of a symbol is dated after d
\* agrees up to d with the run in which the symbol has no record at all, and
\* in that run the symbol is never bought and gets no order; so up to d the
\* symbol has no trade and no order.
Untraded(i) ==
    /\ \A k \in 1..Len(orders) : orders[k].sym # i
    /\ \A k \in 1..Len(trades_log) : trades_log[k].symbol # selected_symbols[i]

C39_NoLookAhead == \A i \in SymIdx : UpTo(table[i], date) = << >> => Untraded(i)

====
